---- MODULE Spec2Model ----
(***************************************************************************)
(* Model of the dinotools state store (StoreImpl, Emitter, defaultReducer) *)
(* of src/src/state.  The newest revision of the module is the one that    *)
(* follows the tests in src/src/state/index.spec.ts (lines 383-837).       *)
(*                                                                         *)
(* A JavaScript object is a record [ref, f, sub]:                          *)
(*   ref  its identity (what === compares),                                *)
(*   f    its plain fields (Undef = the field is absent),                  *)
(*   sub  its __subEvents property: def = present, kv = the own keys in    *)
(*        for-in order with their values.                                  *)
(* The time part of an event stamp (new Date().toISOString()) is read once *)
(* per call and is left out: a stamp is its sequence number.               *)
(***************************************************************************)
EXTENDS Naturals, Sequences, FiniteSets, TLC

\* ------------------------------------------------------------- bounds
MaxEvents == 2      \* calls that take an event stamp
MaxBatch == 2       \* entries of one batch
MaxListen == 3      \* calls of listenFor

\* ------------------------------------------------------ JS object model
Undef == "_"
Fields == {"type", "k1"}
NoFields == [x \in Fields |-> Undef]

KEY_SUBEVENTS == "__subEvents"
Sentinel == "!"
IndexKeys == {"1"}                 \* canonical array-index property names
SubKeys == {"item1", "item2", "1", Sentinel}

NoSub == [def |-> FALSE, kv |-> <<>>]
MkSub(kv) == [def |-> TRUE, kv |-> kv]

\* !!v of a marker value
Truthy(v) == v \notin {"false", Undef}

HasKey(kv, k) == \E i \in 1..Len(kv) : kv[i].k = k
GetKey(kv, k) == IF HasKey(kv, k) THEN kv[CHOOSE i \in 1..Len(kv) : kv[i].k = k].v ELSE Undef
KeysOf(kv) == [i \in 1..Len(kv) |-> kv[i].k]

IndexVal(k) == IF k = "1" THEN 1 ELSE 0

\* obj[k] = v on a plain object: an existing key keeps its place; a new
\* array-index key goes among the index keys in ascending order, which come
\* first; any other new key goes last (OrdinaryOwnPropertyKeys).
JsSet(kv, k, v) ==
    IF HasKey(kv, k)
    THEN [i \in 1..Len(kv) |-> IF kv[i].k = k THEN [k |-> k, v |-> v] ELSE kv[i]]
    ELSE IF k \in IndexKeys
         THEN LET p == Cardinality({i \in 1..Len(kv) :
                          kv[i].k \in IndexKeys /\ IndexVal(kv[i].k) < IndexVal(k)})
              IN  SubSeq(kv, 1, p) \o <<[k |-> k, v |-> v]>> \o SubSeq(kv, p + 1, Len(kv))
         ELSE Append(kv, [k |-> k, v |-> v])

\* (as JsDelete, but nothing is deleted)
JsDelete_Keep(kv, k) == kv

\* delete obj[k]
JsDelete(kv, k) == SelectSeq(kv, LAMBDA e : e.k # k)

\* { ...a, ...b } on two key/value lists
RECURSIVE JsSpread(_, _)
JsSpread(a, b) == IF b = <<>> THEN a ELSE JsSpread(JsSet(a, Head(b).k, Head(b).v), Tail(b))

\* an object literal { k1: v1, k2: v2, ... } written in this order
Lit(pairs) == MkSub(JsSpread(<<>>, pairs))
P(k, v) == [k |-> k, v |-> v]

\* obj[KEY_SUBEVENTS] ?? {}
SubOrEmpty(o) == IF o.sub.def THEN o.sub.kv ELSE <<>>

\* { ...a, ...b } on the plain fields
SpreadF(a, b) == [x \in Fields |-> IF b[x] # Undef THEN b[x] ELSE a[x]]

\* (prim is set for a value that is no object literal, see Prim)
Obj(ref, f, sub) == [ref |-> ref, f |-> f, sub |-> sub, prim |-> Undef]
Action(f, sub) == [f |-> f, sub |-> sub]
NoAction == Action(NoFields, NoSub)
NoObj == Obj(0, NoFields, NoSub)

\* { ...o }: a new object with o's properties
Copy(o, ref) == Obj(ref, o.f, o.sub)

\* a value that is no object literal: false, 0, '', true, or the function Object
PrimValues == {"false", "zero", "empty", "true"}
Prim(v) == [Obj(0, NoFields, NoSub) EXCEPT !.prim = v]
\* !!value
ValueTruthy(value) == value.ref # 0 \/ value.prim \in {"true", "Object"}

\* the contents of an object, whatever its identity
Content(o) == [f |-> o.f, sub |-> o.sub]

\* ------------------------------------------------------------ the store
Slots == {"s1", "s2"}              \* the keys of _initState
SlotOrder == <<"s1", "s2">>
NoSlot == "zz"                     \* an id that is no key of _initState
\* the place of a property among the own properties of this.states: the keys
\* of _initState in their order, then a key assigned later
SlotIdx(s) ==
    IF \E i \in 1..Len(SlotOrder) : SlotOrder[i] = s
    THEN CHOOSE i \in 1..Len(SlotOrder) : SlotOrder[i] = s
    ELSE Len(SlotOrder) + 1

Handlers == {"h1", "h2"}
\* A topic is the string the emitter is keyed by, kept in parts: <<id>> is
\* `id` and <<id, k>> is `${id}/${k}`.
POST_COMMIT == <<"postCommit">>
SlotTopic(stateId) == <<stateId>>
SubTopic(stateId, subEventId) == <<stateId, subEventId>>
Topics == {SlotTopic(s) : s \in Slots} \cup {POST_COMMIT}
              \cup {SubTopic(s, k) : s \in Slots, k \in SubKeys}

\* the topics in the order in which the caller of the engine registers on them
SubKeyOrder == <<"item1", "item2", "1", Sentinel>>
TopicOrder ==
    <<POST_COMMIT>>
        \o [i \in 1..Len(SlotOrder) |-> SlotTopic(SlotOrder[i])]
        \o [i \in 1..(Len(SlotOrder) * Len(SubKeyOrder)) |->
               SubTopic(SlotOrder[((i - 1) \div Len(SubKeyOrder)) + 1],
                        SubKeyOrder[((i - 1) % Len(SubKeyOrder)) + 1])]
TopicIdx(t) == CHOOSE i \in 1..Len(TopicOrder) : TopicOrder[i] = t

\* the registry of named stores: getStore / setStore
\* ("constructor" is a property every object literal inherits from Object.prototype)
ProtoKeys == {"constructor"}
StoreIds == {"default", "a"} \cup ProtoKeys
Stores == {"store1", "store2"}
NoStores == [id \in StoreIds |-> Undef]
\* obj[k] for an object literal: its own property, else the inherited one
\* (the function Object for "constructor"), else undefined
JsGet(obj, k) ==
    IF k \in DOMAIN obj /\ obj[k] # Undef THEN obj[k]
    ELSE IF k \in ProtoKeys THEN "Object"
    ELSE Undef

\* this.states[stateId], where this.states is the object literal _initState
StateGet(sts, stateId) ==
    IF stateId \in DOMAIN sts THEN sts[stateId]
    ELSE IF stateId \in ProtoKeys THEN Prim("Object")
    ELSE NoObj

\* obj[k] = v on an object keyed by ids: the property is created if it is not there
JsAssign(obj, k, v) == [x \in DOMAIN obj \cup {k} |-> IF x = k THEN v ELSE obj[x]]

VARIABLES
    states,       \* StoreImpl.states
    reducers,     \* StoreImpl.reducers: stateId -> name of the reducer
    listeners,    \* Emitter._listeners: topic -> handlers in registration order
    eventCount,   \* StoreImpl.eventCount
    last,         \* what the latest call did (its input, reducer calls, deliveries)
    maxStamp,     \* the largest stamp any listener was handed by an earlier call
    lcount,       \* StoreImpl.lcount: the listenFor calls made so far
    unsubs,       \* the closures listenFor returned, in order, and whether each was called
    globalStores, \* the registry of named stores
    configured,   \* the reducer the caller last gave for each slot (constructor, setReducer)
    kept          \* what the calling code holds on to between the calls

vars == <<states, reducers, listeners, eventCount, last, maxStamp, lcount, unsubs,
          globalStores, configured, kept>>

NoKept == <<>>

\* ------------------------------------------------------------- reducers
\* defaultReducer: { ...states[stateId], ...action }
defaultReducer(stateId, action, sts, ref) ==
    Obj(ref, SpreadF(StateGet(sts, stateId).f, action.f),
        IF action.sub.def THEN action.sub ELSE StateGet(sts, stateId).sub)

\* The reducer the tests set on their slots: a `replace` action yields a new
\* object holding the action's other properties, anything else the stored
\* object itself.
replaceReducer(stateId, action, sts, ref) ==
    IF action.f["type"] = "replace"
    THEN Obj(ref, [action.f EXCEPT !["type"] = Undef], action.sub)
    ELSE sts[stateId]

ReducerNames == {"defaultReducer", "replaceReducer"}

\* ---- keyItemReducer: a slot that maps keys to items
\* An item is an object with the plain fields; NoItem is a key without value.
ItemKeys == {"item1", "item2"}
Item(f) == [here |-> TRUE, f |-> f]
NoItem == [here |-> FALSE, f |-> NoFields]
\* the fields of a KeyItemAction that are not the item's
KeyFields == {"__key", "__oldKey", "__deleteKey"}
\* if (__key), if (__oldKey), if (__deleteKey): '' and undefined are falsy
KeyTruthy(k) == k \notin {Undef, ""}

\* keyItemAdd(id, item): { __key: id, ...item }
keyItemAdd(id, item) ==
    Action([k \in Fields \cup KeyFields |->
               IF k \in Fields THEN item[k] ELSE IF k = "__key" THEN id ELSE Undef], NoSub)

\* keyItemMove(oldId, newId, mergeItem): { __key: newId, __oldKey: oldId, ...mergeItem }
keyItemMove(oldId, newId, mergeItem) ==
    Action([k \in Fields \cup KeyFields |->
               IF k \in Fields THEN mergeItem[k]
               ELSE IF k = "__key" THEN newId
               ELSE IF k = "__oldKey" THEN oldId ELSE Undef], NoSub)

\* keyItemRemove(id): { __deleteKey: id }
keyItemRemove(id) ==
    Action([k \in Fields \cup KeyFields |-> IF k = "__deleteKey" THEN id ELSE Undef], NoSub)

\* nstate[k] ?? {}
ItemOrEmpty(f, k) == IF f[k].here THEN f[k].f ELSE NoFields

\* (as DeleteItem, but the item stays)
DeleteItem_Keep(f, k) == f

\* delete nstate[k]
DeleteItem(f, k) == [f EXCEPT ![k] = NoItem]

\* keyItemReducer(stateId, action, states)
keyItemReducer(stateId, action, sts, ref) ==
    LET nstate      == sts[stateId]
        __key       == action.f["__key"]
        __oldKey    == action.f["__oldKey"]
        __deleteKey == action.f["__deleteKey"]
        \* const { type, __key, __oldKey, __deleteKey, ...rest } = action
        rest        == [k \in Fields |-> IF k = "type" THEN Undef ELSE action.f[k]]
    IN  IF KeyTruthy(__key)
        THEN LET sub1 == JsSet(<<>>, __key, "add")
                 sub2 == IF KeyTruthy(__oldKey) THEN JsSet(sub1, __oldKey, "remove") ELSE sub1
                 item == IF KeyTruthy(__oldKey)
                         THEN SpreadF(ItemOrEmpty(nstate.f, __oldKey), rest)
                         ELSE rest
                 f1   == IF KeyTruthy(__oldKey)
                         THEN DeleteItem(nstate.f, __oldKey)
                         ELSE nstate.f
             IN  Obj(ref, [f1 EXCEPT ![__key] = Item(item)], MkSub(sub2))
        ELSE IF KeyTruthy(__deleteKey)
        THEN Obj(ref, DeleteItem(nstate.f, __deleteKey),
                 MkSub(JsSet(<<>>, __deleteKey, "remove")))
        ELSE Obj(ref, nstate.f, nstate.sub)

\* ---------------------------------------------------------------- forms
FORM_RESET == "form.reset"
FORM_UPDATE_FIELD == "form.field.update1"
FORM_UPDATE_FIELDS == "form.field.updateMany"
FORM_SET_ERRORS == "form.errors.set"
FORM_EXEC_OP == "form.op.exec"

\* operation names are strings, kept as their characters
OP_EMPTY == <<>>
OP_SUBMIT == <<"s", "u", "b", "m", "i", "t">>
\* (as StartsWith, but the whole string must be the prefix)
StartsWith_Equal(s, p) == s = p

\* String.prototype.startsWith
StartsWith(s, p) == Len(s) >= Len(p) /\ SubSeq(s, 1, Len(p)) = p

\* the fields of the form of the tests, in the order the tests write them
FormFieldOrder == <<"is_error", "age">>
FormFieldNames == {"is_error", "age"}
NoValues == [x \in FormFieldNames |-> Undef]                 \* values: {}
\* FieldError: { message }, the message kept as the pieces it is joined from
FieldError(message) == [here |-> TRUE, message |-> message]
NoFieldError == [here |-> FALSE, message |-> <<>>]
NoErrors == [x \in FormFieldNames |-> NoFieldError]          \* errors: {}

\* an optional property: undefined, or a value
Given(v) == [def |-> TRUE, v |-> v]
NoOp == [def |-> FALSE, v |-> <<>>]
\* ExecOpParams: { clearErrors?, setErrors?, locked?, extra? }
ExecOpParams(clearErrors, setErrors, locked, extra) ==
    [clearErrors |-> clearErrors, setErrors |-> setErrors, locked |-> locked, extra |-> extra]
NoSetErrors == [def |-> FALSE, v |-> NoErrors]
EmptyParams == ExecOpParams(Undef, NoSetErrors, Undef, Undef)
NoParams == [def |-> FALSE, v |-> EmptyParams]

\* FormState
FormState(status, locked, op, params, values, errors) ==
    [status |-> status, locked |-> locked, execOp |-> op, execOpParams |-> params,
     values |-> values, errors |-> errors]
\* getFormState(): { status: 'clean', values: {}, errors: {} }
getFormState == FormState("clean", Undef, NoOp, NoParams, NoValues, NoErrors)

\* a form action: type and the properties its creator puts next to it
FormAction(type) ==
    [type |-> type, field |-> Undef, value |-> Undef, values |-> NoValues,
     givesValues |-> FALSE, errors |-> NoErrors, givesErrors |-> FALSE, status |-> Undef,
     execOp |-> NoOp, execOpParams |-> NoParams]
\* resetForm(form), form giving values, errors or neither
resetForm(hasValues, values, hasErrs, errors) ==
    Action([FormAction(FORM_RESET) EXCEPT !.values = values, !.givesValues = hasValues,
                                          !.errors = errors, !.givesErrors = hasErrs], NoSub)
\* updateField(field, value)
updateField(field, value) ==
    Action([FormAction(FORM_UPDATE_FIELD) EXCEPT !.field = field, !.value = value], NoSub)
\* updateFields(values)
updateFields(values) ==
    Action([FormAction(FORM_UPDATE_FIELDS) EXCEPT !.values = values, !.givesValues = TRUE], NoSub)
\* execOp(execOp, execOpParams)
execOp(op, params) ==
    Action([FormAction(FORM_EXEC_OP) EXCEPT !.execOp = Given(op), !.execOpParams = params], NoSub)
\* setErrors(errors)
setErrors(errors) ==
    Action([FormAction(FORM_SET_ERRORS) EXCEPT !.errors = errors, !.givesErrors = TRUE], NoSub)

\* generateUpdateSubEvents(fields): { 'update.<key>': value } in for-in order
UpdateKey(field) == IF field = "age" THEN "update.age" ELSE "update.is_error"
RECURSIVE generateUpdateSubEvents(_, _, _)
generateUpdateSubEvents(fields, i, map) ==
    IF i > Len(FormFieldOrder) THEN map
    ELSE generateUpdateSubEvents(fields, i + 1,
            IF fields[FormFieldOrder[i]] # Undef
            THEN JsSet(map, UpdateKey(FormFieldOrder[i]), fields[FormFieldOrder[i]])
            ELSE map)

\* return states.form
FallThrough(stateId, sts) == StateGet(sts, "form")

\* formReducer(stateId, action, states)
formReducer(stateId, action, sts, ref) ==
    LET type == action.f.type
        cur  == StateGet(sts, stateId).f
    IN  IF type = FORM_RESET
        THEN Obj(ref, FormState("clean", Undef, NoOp, NoParams,
                          IF action.f.givesValues THEN action.f.values ELSE NoValues,
                          IF action.f.givesErrors THEN action.f.errors ELSE NoErrors), NoSub)
        ELSE IF type = FORM_UPDATE_FIELD
        THEN Obj(ref, [cur EXCEPT !.status = "dirty",
                                  !.values = [@ EXCEPT ![action.f.field] = action.f.value]],
                 MkSub(generateUpdateSubEvents(
                           [NoValues EXCEPT ![action.f.field] = action.f.value], 1, <<>>)))
        ELSE IF type = FORM_UPDATE_FIELDS
        THEN Obj(ref, [cur EXCEPT !.status = "dirty",
                                  !.values = [x \in FormFieldNames |->
                                                 IF action.f.values[x] # Undef
                                                 THEN action.f.values[x] ELSE @[x]]],
                 MkSub(generateUpdateSubEvents(action.f.values, 1, <<>>)))
        ELSE IF type = FORM_SET_ERRORS
        THEN Obj(ref, [cur EXCEPT !.errors = action.f.errors, !.locked = "false",
                                  !.execOp = NoOp, !.execOpParams = NoParams],
                 StateGet(sts, stateId).sub)
        ELSE IF type = FORM_EXEC_OP
        THEN LET execOpParams == action.f.execOpParams
                 params == execOpParams.v
                 locked == IF ~action.f.execOp.def THEN Undef
                           ELSE IF StartsWith(action.f.execOp.v, OP_SUBMIT) THEN "true"
                           ELSE "false"
                 errors == IF execOpParams.def /\ Truthy(params.clearErrors) THEN NoErrors
                           ELSE IF execOpParams.def /\ params.setErrors.def
                           THEN params.setErrors.v
                           ELSE cur.errors
             IN  Obj(ref, [cur EXCEPT !.locked = IF execOpParams.def /\ params.locked # Undef
                                                 THEN params.locked ELSE locked,
                                      !.execOp = action.f.execOp,
                                      !.execOpParams = execOpParams,
                                      !.errors = errors],
                     StateGet(sts, stateId).sub)
        ELSE FallThrough(stateId, sts)

Reduce(name, stateId, action, sts, ref) ==
    IF name = "formReducer"
    THEN formReducer(stateId, action, sts, ref)
    ELSE IF name = "replaceReducer"
    THEN replaceReducer(stateId, action, sts, ref)
    ELSE IF name = "keyItemReducer"
    THEN keyItemReducer(stateId, action, sts, ref)
    ELSE defaultReducer(stateId, action, sts, ref)

\* this.applyReducer(stateId, action, state): `state` is not used, the reducer
\* is handed this.states.  `ref` is the identity a new object gets.
applyReducer(this, stateId, action, state, ref) ==
    Reduce(reducers[stateId], stateId, action, this, ref)

\* (as makeEventStamp, without the increment)
makeEventStamp_NoIncrement == eventCount

\* __makeEventStamp: ++this.eventCount
makeEventStamp == eventCount + 1

\* ------------------------------------------------------------- emitter
\* (as emit, going through the registrations from the last to the first)
emit_Reversed(topic, ev) ==
    [i \in 1..Len(listeners[topic]) |->
        [h |-> listeners[topic][Len(listeners[topic]) + 1 - i].fn,
         reg |-> listeners[topic][Len(listeners[topic]) + 1 - i].reg,
         topic |-> topic, ev |-> ev]]

\* (as emit, but every registration is invoked twice)
emit_Twice(topic, ev) ==
    [i \in 1..(2 * Len(listeners[topic])) |->
        [h |-> listeners[topic][(i + 1) \div 2].fn, reg |-> listeners[topic][(i + 1) \div 2].reg,
         topic |-> topic, ev |-> ev]]

\* Emitter.emit(topic, ev): one invocation per registration, in order
emit(topic, ev) ==
    IF topic \notin DOMAIN listeners THEN <<>>
    ELSE [i \in 1..Len(listeners[topic]) |->
            [h |-> listeners[topic][i].fn, reg |-> listeners[topic][i].reg,
             topic |-> topic, ev |-> ev]]

\* Emitter.on(eventId, fn), for the lcount-th call of listenFor
on(eventId, fn) ==
    [listeners EXCEPT ![eventId] = Append(@, [fn |-> fn, reg |-> lcount])]

\* Emitter.off(eventId, fn): keeps the entries f with f !== fn
off(eventId, fn) ==
    [listeners EXCEPT ![eventId] = SelectSeq(@, LAMBDA f : f.fn # fn)]

\* ------------------------------------------------------------- objects
RefsOf(sts) == {sts[s].ref : s \in DOMAIN sts}
MaxRef(S) == CHOOSE m \in S : \A x \in S : x <= m
\* the identity of the next new object: one that no object in use has
FreshRef(used) == MaxRef(used \cup {0}) + 1

\* obj[KEY_SUBEVENTS] = sub, seen through every slot of sts that holds obj
SetSub(sts, ref, sub) ==
    [s \in DOMAIN sts |-> IF sts[s].ref = ref THEN [sts[s] EXCEPT !.sub = sub] ELSE sts[s]]

\* Identities are only ever compared with ===, so between calls the object a
\* slot holds is named after the first slot that holds it.
Canon(sts) ==
    [s \in DOMAIN sts |->
        [sts[s] EXCEPT !.ref = SlotIdx(CHOOSE t \in DOMAIN sts :
            /\ sts[t].ref = sts[s].ref
            /\ \A u \in DOMAIN sts : sts[u].ref = sts[s].ref => SlotIdx(t) <= SlotIdx(u))]]

\* ------------------------------------------------------------- events
\* (as StoreEventAction, but prevState read after the slot was assigned)
StoreEventAction_PrevAfter(stateId, stamp, sts, action, prevState) ==
    [eventId |-> stateId, subEventId |-> Undef, eventStamp |-> stamp, states |-> sts,
     isBatch |-> FALSE, stateId |-> stateId, action |-> action, prevState |-> sts[stateId],
     batchStateIds |-> <<>>, batchActions |-> <<>>, prevStates |-> <<>>]

\* The event of a single dispatch (StoreEventAction)
StoreEventAction(stateId, stamp, sts, action, prevState) ==
    [eventId |-> stateId, subEventId |-> Undef, eventStamp |-> stamp, states |-> sts,
     isBatch |-> FALSE, stateId |-> stateId, action |-> action, prevState |-> prevState,
     batchStateIds |-> <<>>, batchActions |-> <<>>, prevStates |-> <<>>]

\* The event of one slot of a batch (StoreEventBatchAction)
StoreEventBatchAction(stateId, stamp, sts, stateIds, actions, prevStates) ==
    [eventId |-> stateId, subEventId |-> Undef, eventStamp |-> stamp, states |-> sts,
     isBatch |-> TRUE, stateId |-> Undef, action |-> NoAction, prevState |-> NoObj,
     batchStateIds |-> stateIds, batchActions |-> actions, prevStates |-> prevStates]

\* (as LiveStates, but the event shows the map from before the call)
LiveStates_Before(sts) == states

\* states: this.states / states: newStates -- the event's `states` is the
\* store's map as it stands when a listener is invoked
LiveStates(sts) == sts

\* The loop over the sub-event keys of the committed value of stateId, in
\* for-in order.  acc.sts is this.states as it stands (event.states is the same
\* object, so a listener sees it as it is when it is invoked).
RECURSIVE SubEventLoop(_, _, _, _, _)
SubEventLoop(stateId, ev, keys, i, acc) ==
    IF i > Len(keys) THEN acc
    ELSE IF keys[i] = Sentinel
    THEN SubEventLoop(stateId, ev, keys, i + 1,
            [acc EXCEPT !.excludeMainEvent = Truthy(GetKey(SubOrEmpty(acc.sts[stateId]), Sentinel)),
                        !.sts = SetSub(acc.sts, acc.sts[stateId].ref,
                                   MkSub(JsDelete(SubOrEmpty(acc.sts[stateId]), Sentinel)))])
    ELSE SubEventLoop(stateId, ev, keys, i + 1,
            [acc EXCEPT !.subEventCount = @ + 1,
                        !.log = @ \o emit(SubTopic(stateId, keys[i]),
                                    [ev EXCEPT !.subEventId = keys[i],
                                               !.states = LiveStates(acc.sts)])])

\* (as MainEventDue, without the test of subEventCount)
MainEventDue_NoCount(excludeMainEvent, subEventCount) == ~excludeMainEvent

\* if (!excludeMainEvent || subEventCount === 0)
MainEventDue(excludeMainEvent, subEventCount) == ~excludeMainEvent \/ subEventCount = 0

\* The events of one committed slot: the sub-key events, then the slot-wide
\* event and postCommit.  Returns this.states and the invocations made.
EmitCommitted(stateId, ev, sts) ==
    LET r == SubEventLoop(stateId, ev, KeysOf(SubOrEmpty(sts[stateId])), 1,
                 [excludeMainEvent |-> FALSE, subEventCount |-> 0, log |-> <<>>, sts |-> sts])
        e == [ev EXCEPT !.states = LiveStates(r.sts)]
    IN  [sts |-> r.sts,
         log |-> r.log \o (IF MainEventDue(r.excludeMainEvent, r.subEventCount)
                           THEN emit(SlotTopic(stateId), e) \o emit(POST_COMMIT, e)
                           ELSE <<>>)]

StampsOf(log) == {log[i].ev.eventStamp : i \in 1..Len(log)}

\* ------------------------------------------------------------- inputs
\* { k1: 'a' }
ActData    == Action([type |-> Undef, k1 |-> "a"], NoSub)
\* { type: 'replace', k1: 'b', __subEvents: { '!': true } }
ActReplace == Action([type |-> "replace", k1 |-> "b"], Lit(<<P(Sentinel, "true")>>))
\* { __subEvents: { item1: 'a' } }
ActItem1   == Action(NoFields, Lit(<<P("item1", "a")>>))
\* { __subEvents: { item2: 'b', '!': true } }
ActItem2X  == Action(NoFields, Lit(<<P("item2", "b"), P(Sentinel, "true")>>))
\* { __subEvents: { item1: 'b', '1': 'c', '!': false } }
ActMixed   == Action(NoFields, Lit(<<P("item1", "b"), P("1", "c"), P(Sentinel, "false")>>))

\* The (stateId, action) pairs the calls are made with: s1 runs defaultReducer,
\* s2 the tests' reducer (for which ActData changes nothing), NoSlot has none.
Entry(stateId, action) == [stateId |-> stateId, action |-> action]
Entries ==
    {Entry("s1", a) : a \in {ActData, ActItem1, ActItem2X, ActMixed}}
        \cup {Entry("s2", ActReplace), Entry("s2", ActData), Entry(NoSlot, ActData)}

\* ------------------------------------------------------------- the calls
NoCall == [op |-> "none", stateId |-> Undef, action |-> NoAction, batch |-> <<>>,
           pre |-> <<>>, threw |-> FALSE, rcalls |-> <<>>, work |-> <<>>,
           post |-> <<>>, stateIds |-> <<>>, log |-> <<>>,
           arg |-> Undef, store |-> Undef, ret |-> Undef, stores |-> NoStores,
           value |-> NoObj]

\* new StoreImpl(_initState, _reducers), then the listeners the caller registers
Init ==
    /\ states = [s \in Slots |-> Obj(SlotIdx(s), [type |-> Undef, k1 |-> "i"], NoSub)]
    /\ reducers = [s \in Slots |-> IF s = "s1" THEN "defaultReducer" ELSE "replaceReducer"]
    /\ listeners = [t \in Topics |-> <<[fn |-> "h1", reg |-> TopicIdx(t) - 1]>>]
    /\ eventCount = 0
    /\ last = NoCall
    /\ maxStamp = 0
    /\ lcount = Len(TopicOrder)
    /\ unsubs = [n \in 1..Len(TopicOrder) |->
                    [eventId |-> TopicOrder[n], listener |-> "h1", called |-> FALSE]]
    /\ globalStores = NoStores
    /\ kept = NoKept
    /\ configured = [s \in Slots |-> IF s = "s1" THEN Undef ELSE "replaceReducer"]

\* getDispatcher(stateId)(action): StoreImpl.dispatch
dispatch(stateId, action) ==
    LET prevState == Copy(StateGet(states, stateId), FreshRef(RefsOf(states)))
        newState  == applyReducer(states, stateId, action, prevState,
                                  FreshRef(RefsOf(states) \cup {prevState.ref}))
        call      == [NoCall EXCEPT !.op = "dispatch", !.stateId = stateId, !.action = action,
                          !.pre = states,
                          !.rcalls = <<[stateId |-> stateId, action |-> action,
                                        seen |-> states, ret |-> newState]>>]
    IN  IF newState.ref = prevState.ref
        THEN /\ last' = [call EXCEPT !.post = states]
             /\ UNCHANGED <<states, eventCount>>
        ELSE LET stamp == makeEventStamp
                 sts1  == JsAssign(states, stateId, newState)
                 r     == EmitCommitted(stateId,
                              StoreEventAction(stateId, stamp, sts1, action, prevState), sts1)
             IN  /\ states' = Canon(r.sts)
                 /\ eventCount' = stamp
                 /\ last' = [call EXCEPT !.post = r.sts, !.stateIds = <<stateId>>, !.log = r.log]

Dispatch ==
    \E e \in Entries :
        /\ last.op = "none"
        /\ eventCount < MaxEvents
        /\ e.stateId \in DOMAIN reducers
        /\ dispatch(e.stateId, e.action)
        /\ UNCHANGED <<reducers, listeners, maxStamp, lcount, unsubs, globalStores, configured, kept>>

\* (as pushAction, but a later action of a slot replaces the earlier ones)
pushAction_KeepLast(stateIdActions, stateId, action) ==
    IF \E j \in 1..Len(stateIdActions) : stateIdActions[j].stateId = stateId
    THEN [j \in 1..Len(stateIdActions) |->
            IF stateIdActions[j].stateId = stateId
            THEN [stateIdActions[j] EXCEPT !.actions = <<action>>]
            ELSE stateIdActions[j]]
    ELSE Append(stateIdActions, [stateId |-> stateId, actions |-> <<action>>])

\* (as pushAction, but a new slot goes to the front of stateIdActions)
pushAction_Prepend(stateIdActions, stateId, action) ==
    IF \E j \in 1..Len(stateIdActions) : stateIdActions[j].stateId = stateId
    THEN [j \in 1..Len(stateIdActions) |->
            IF stateIdActions[j].stateId = stateId
            THEN [stateIdActions[j] EXCEPT !.actions = Append(@, action)]
            ELSE stateIdActions[j]]
    ELSE <<[stateId |-> stateId, actions |-> <<action>>]>> \o stateIdActions

\* pushAction(stateId, action) on stateIdActions, whose keys keep the order in
\* which they were first set
pushAction(stateIdActions, stateId, action) ==
    IF \E j \in 1..Len(stateIdActions) : stateIdActions[j].stateId = stateId
    THEN [j \in 1..Len(stateIdActions) |->
            IF stateIdActions[j].stateId = stateId
            THEN [stateIdActions[j] EXCEPT !.actions = Append(@, action)]
            ELSE stateIdActions[j]]
    ELSE Append(stateIdActions, [stateId |-> stateId, actions |-> <<action>>])

ActionsOf(stateIdActions, stateId) ==
    stateIdActions[CHOOSE j \in 1..Len(stateIdActions) : stateIdActions[j].stateId = stateId].actions

\* (as BatchChanged, but every result counts as a change)
BatchChanged_Always(newState, prevStates, stateId) == TRUE

\* if (newState !== prevStates[stateId])
BatchChanged(newState, prevStates, stateId) == newState.ref # prevStates[stateId].ref

\* (as MergeSubEvents, with the two spreads swapped)
MergeSubEvents_Swapped(lastSubEvents, newSubEvents) == MkSub(JsSpread(newSubEvents, lastSubEvents))

\* newStates[stateId][KEY_SUBEVENTS] = { ...lastSubEvents, ...newSubEvents }
MergeSubEvents(lastSubEvents, newSubEvents) == MkSub(JsSpread(lastSubEvents, newSubEvents))

\* The loop of batchDispatch over the entries.  acc.this is this.states; a
\* write through an object reaches every map that holds the object.
RECURSIVE BatchLoop(_, _, _)
BatchLoop(actions, i, acc) ==
    IF i > Len(actions) \/ acc.threw THEN acc
    ELSE LET stateId == actions[i].stateId
             action  == actions[i].action
         IN  IF stateId \notin DOMAIN reducers
             THEN [acc EXCEPT !.threw = TRUE]
             ELSE LET newState == applyReducer(acc.this, stateId, action, acc.newStates, acc.ref)
                      rcall    == [stateId |-> stateId, action |-> action,
                                   seen |-> acc.this, ret |-> newState]
                  IN  IF BatchChanged(newState, acc.prevStates, stateId)
                      THEN LET merged == MergeSubEvents(SubOrEmpty(acc.newStates[stateId]),
                                                        SubOrEmpty(newState))
                               ns     == SetSub([acc.newStates EXCEPT ![stateId] = newState],
                                                newState.ref, merged)
                           IN  BatchLoop(actions, i + 1,
                                 [acc EXCEPT !.stateIdActions = pushAction(@, stateId, action),
                                             !.newStates = ns,
                                             !.prevStates = SetSub(@, newState.ref, merged),
                                             !.this = SetSub(@, newState.ref, merged),
                                             !.ref = @ + 1,
                                             !.rcalls = Append(@, rcall),
                                             !.work = Append(@, ns)])
                      ELSE BatchLoop(actions, i + 1,
                                 [acc EXCEPT !.ref = @ + 1,
                                             !.rcalls = Append(@, rcall),
                                             !.work = Append(@, acc.newStates)])

\* The loop of batchDispatch over the changed slots, in Object.keys order
RECURSIVE BatchEmitLoop(_, _, _, _, _)
BatchEmitLoop(stateIdActions, stamp, prevStates, j, acc) ==
    IF j > Len(stateIdActions) THEN acc
    ELSE LET stateId == stateIdActions[j].stateId
             ev == StoreEventBatchAction(stateId, stamp, acc.sts,
                       [x \in 1..Len(stateIdActions) |-> stateIdActions[x].stateId],
                       stateIdActions[j].actions, prevStates)
             r  == EmitCommitted(stateId, ev, acc.sts)
         IN  BatchEmitLoop(stateIdActions, stamp, prevStates, j + 1,
                           [sts |-> r.sts, log |-> acc.log \o r.log])

\* (as StatesAfterThrow, with the entries applied to this.states itself)
StatesAfterThrow_InPlace(b) == b.newStates

\* this.states when the loop over the entries throws: newStates is a copy,
\* which the throw drops
StatesAfterThrow(b) == b.this

\* getBatchDispatcher()(actions): StoreImpl.batchDispatch
batchDispatch(actions) ==
    LET b == BatchLoop(actions, 1,
                 [threw |-> FALSE, this |-> states, prevStates |-> states, newStates |-> states,
                  stateIdActions |-> <<>>, ref |-> FreshRef(RefsOf(states)),
                  rcalls |-> <<>>, work |-> <<>>])
        call == [NoCall EXCEPT !.op = "batch", !.batch = actions, !.pre = states,
                     !.rcalls = b.rcalls, !.work = b.work]
    IN  IF b.threw
        THEN /\ states' = Canon(StatesAfterThrow(b))
             /\ last' = [call EXCEPT !.threw = TRUE, !.post = StatesAfterThrow(b)]
             /\ UNCHANGED eventCount
        ELSE LET stamp == makeEventStamp
                 r == BatchEmitLoop(b.stateIdActions, stamp, b.prevStates, 1,
                          [sts |-> b.newStates, log |-> <<>>])
             IN  /\ states' = Canon(r.sts)
                 /\ eventCount' = stamp
                 /\ last' = [call EXCEPT !.post = r.sts, !.log = r.log,
                                 !.stateIds = [x \in 1..Len(b.stateIdActions) |->
                                                  b.stateIdActions[x].stateId]]

\* entries for the longer batches: ActData changes s1 and leaves s2 as it is
OrderEntries == {Entry("s1", ActData), Entry("s2", ActData), Entry("s2", ActReplace)}

BatchInputs ==
    UNION {[1..n -> Entries] : n \in 0..MaxBatch} \cup [1..(MaxBatch + 1) -> OrderEntries]

BatchDispatch ==
    \E actions \in BatchInputs :
        /\ last.op = "none"
        /\ eventCount < MaxEvents
        /\ batchDispatch(actions)
        /\ UNCHANGED <<reducers, listeners, maxStamp, lcount, unsubs, globalStores, configured, kept>>

\* The caller is done looking at what the call did: the record is cleared (as
\* the tests clear theirs before each case); the stamps it held are remembered.
Forget ==
    /\ last.op # "none"
    /\ last' = NoCall
    /\ maxStamp' = MaxRef(StampsOf(last.log) \cup {maxStamp})
    /\ UNCHANGED <<states, reducers, listeners, eventCount, lcount, unsubs, globalStores, configured, kept>>

Next == Dispatch \/ BatchDispatch \/ Forget

Spec == Init /\ [][Next]_vars

\* ------------------------------------------------------------- listeners
\* A store whose caller registers and unregisters listeners between the calls.
InitListen ==
    /\ states = [s \in Slots |-> Obj(SlotIdx(s), [type |-> Undef, k1 |-> "i"], NoSub)]
    /\ reducers = [s \in Slots |-> IF s = "s1" THEN "defaultReducer" ELSE "replaceReducer"]
    /\ listeners = [t \in Topics |-> <<>>]
    /\ eventCount = 0
    /\ last = NoCall
    /\ maxStamp = 0
    /\ lcount = 0
    /\ unsubs = <<>>
    /\ globalStores = NoStores
    /\ kept = NoKept
    /\ configured = [s \in Slots |-> IF s = "s1" THEN Undef ELSE "replaceReducer"]

ListenTopics == {SlotTopic("s1"), POST_COMMIT}
ListenEntries == {Entry("s1", ActData)}
ListenBatches == {<<Entry("s1", ActData), Entry("s2", ActReplace)>>}

\* unsub = store.listenFor(eventId, listener)
ListenFor ==
    \E eventId \in ListenTopics, listener \in Handlers :
        /\ last.op = "none"
        /\ lcount < MaxListen
        /\ listeners' = on(eventId, listener)
        /\ lcount' = lcount + 1
        /\ unsubs' = Append(unsubs, [eventId |-> eventId, listener |-> listener,
                                     called |-> FALSE])
        /\ UNCHANGED <<states, reducers, eventCount, last, maxStamp, globalStores, configured, kept>>

\* unsub(), for one of the closures listenFor returned
Unsubscribe ==
    \E n \in 1..Len(unsubs) :
        /\ last.op = "none"
        /\ listeners' = off(unsubs[n].eventId, unsubs[n].listener)
        /\ unsubs' = [unsubs EXCEPT ![n].called = TRUE]
        /\ UNCHANGED <<states, reducers, eventCount, last, maxStamp, lcount, globalStores, configured, kept>>

ListenDispatch ==
    \E e \in ListenEntries :
        /\ last.op = "none"
        /\ eventCount < MaxEvents
        /\ e.stateId \in DOMAIN reducers
        /\ dispatch(e.stateId, e.action)
        /\ UNCHANGED <<reducers, listeners, maxStamp, lcount, unsubs, globalStores, configured, kept>>

ListenBatch ==
    \E actions \in ListenBatches :
        /\ last.op = "none"
        /\ eventCount < MaxEvents
        /\ batchDispatch(actions)
        /\ UNCHANGED <<reducers, listeners, maxStamp, lcount, unsubs, globalStores, configured, kept>>

NextListen == ListenFor \/ Unsubscribe \/ ListenDispatch \/ ListenBatch \/ Forget

SpecListen == InitListen /\ [][NextListen]_vars

\* ------------------------------------------------------------- registry
\* const id = _id ?? 'default'
IdOrDefault(_id) == IF _id = Undef THEN "default" ELSE _id

\* getStore(_id)
getStore(_id) ==
    LET id   == IdOrDefault(_id)
        call == [NoCall EXCEPT !.op = "getStore", !.arg = _id, !.stores = globalStores]
    IN  /\ last' = IF ~Truthy(JsGet(globalStores, id))
                   THEN [call EXCEPT !.threw = TRUE]
                   ELSE [call EXCEPT !.ret = JsGet(globalStores, id)]
        /\ UNCHANGED globalStores

\* setStore(store, _id)
setStore(store, _id) ==
    LET id   == IdOrDefault(_id)
        call == [NoCall EXCEPT !.op = "setStore", !.arg = _id, !.store = store,
                              !.stores = globalStores]
    IN  IF Truthy(JsGet(globalStores, id))
        THEN /\ last' = [call EXCEPT !.threw = TRUE]
             /\ UNCHANGED globalStores
        ELSE /\ globalStores' = [globalStores EXCEPT ![id] = store]
             /\ last' = [call EXCEPT !.ret = store]

GetStore ==
    \E _id \in StoreIds \cup {Undef} :
        /\ last.op = "none"
        /\ getStore(_id)
        /\ UNCHANGED <<states, reducers, listeners, eventCount, maxStamp, lcount, unsubs, configured, kept>>

SetStore ==
    \E store \in Stores, _id \in StoreIds \cup {Undef} :
        /\ last.op = "none"
        /\ setStore(store, _id)
        /\ UNCHANGED <<states, reducers, listeners, eventCount, maxStamp, lcount, unsubs, configured, kept>>

NextRegistry == GetStore \/ SetStore \/ Forget

SpecRegistry == Init /\ [][NextRegistry]_vars

\* ------------------------------------------------------------- access
\* A store some of whose slots start with a value that is no object, read with
\* getState and asked for dispatchers.
InitValues == {Obj(2, [type |-> Undef, k1 |-> "i"], NoSub)} \cup {Prim(v) : v \in PrimValues}

InitAccess ==
    /\ \E v \in InitValues :
          states = [s \in Slots |-> IF s = "s1"
                                    THEN Obj(1, [type |-> Undef, k1 |-> "i"], NoSub) ELSE v]
    /\ reducers = [s \in Slots |-> "defaultReducer"]
    /\ listeners = [t \in Topics |-> <<[fn |-> "h1", reg |-> TopicIdx(t) - 1]>>]
    /\ eventCount = 0
    /\ last = NoCall
    /\ maxStamp = 0
    /\ lcount = Len(TopicOrder)
    /\ unsubs = [n \in 1..Len(TopicOrder) |->
                    [eventId |-> TopicOrder[n], listener |-> "h1", called |-> FALSE]]
    /\ globalStores = NoStores
    /\ kept = NoKept
    /\ configured = [s \in Slots |-> Undef]

AccessIds == Slots \cup {NoSlot} \cup ProtoKeys

\* store.getState(stateId)
getState(stateId) ==
    LET call == [NoCall EXCEPT !.op = "getState", !.stateId = stateId, !.pre = states]
    IN  last' = IF ~ValueTruthy(StateGet(states, stateId))
                THEN [call EXCEPT !.threw = TRUE]
                ELSE [call EXCEPT !.value = StateGet(states, stateId)]

\* store.getDispatcher(stateId), the returned dispatcher not being called
getDispatcher(stateId) ==
    LET call == [NoCall EXCEPT !.op = "getDispatcher", !.stateId = stateId, !.pre = states]
    IN  last' = IF ~Truthy(JsGet(reducers, stateId))
                THEN [call EXCEPT !.threw = TRUE]
                ELSE [call EXCEPT !.ret = "dispatcher"]

GetState ==
    \E stateId \in AccessIds :
        /\ last.op = "none"
        /\ getState(stateId)
        /\ UNCHANGED <<states, reducers, listeners, eventCount, maxStamp, lcount, unsubs,
                       globalStores, configured, kept>>

GetDispatcher ==
    \E stateId \in AccessIds :
        /\ last.op = "none"
        /\ getDispatcher(stateId)
        /\ UNCHANGED <<states, reducers, listeners, eventCount, maxStamp, lcount, unsubs,
                       globalStores, configured, kept>>

AccessEntries == {Entry("s1", ActData), Entry("s1", ActItem1)}

AccessDispatch ==
    \E e \in AccessEntries :
        /\ last.op = "none"
        /\ eventCount < MaxEvents
        /\ Truthy(JsGet(reducers, e.stateId))
        /\ dispatch(e.stateId, e.action)
        /\ UNCHANGED <<reducers, listeners, maxStamp, lcount, unsubs, globalStores, configured, kept>>

NextAccess == GetState \/ GetDispatcher \/ AccessDispatch \/ Forget

SpecAccess == InitAccess /\ [][NextAccess]_vars

\* ------------------------------------------------------------- reducers
\* (as StoreReducers, leaving out the reducers handed to the constructor)
StoreReducers_AllDefault(_initState, _reducers) ==
    [key \in DOMAIN _initState |-> "defaultReducer"]

\* the constructor's loop: this.reducers[key] = _reducers[key] ?? defaultReducer
StoreReducers(_initState, _reducers) ==
    [key \in DOMAIN _initState |->
        IF _reducers[key] = Undef THEN "defaultReducer" ELSE _reducers[key]]

\* new StoreImpl(_initState, _reducers) for the reducer maps a caller may hand in
InitReducers ==
    /\ states = [s \in Slots |-> Obj(SlotIdx(s), [type |-> Undef, k1 |-> "i"], NoSub)]
    /\ \E _reducers \in [Slots -> {Undef} \cup ReducerNames] :
          /\ reducers = StoreReducers(states, _reducers)
          /\ configured = _reducers
    /\ listeners = [t \in Topics |-> <<[fn |-> "h1", reg |-> TopicIdx(t) - 1]>>]
    /\ eventCount = 0
    /\ last = NoCall
    /\ maxStamp = 0
    /\ lcount = Len(TopicOrder)
    /\ unsubs = [n \in 1..Len(TopicOrder) |->
                    [eventId |-> TopicOrder[n], listener |-> "h1", called |-> FALSE]]
    /\ globalStores = NoStores
    /\ kept = NoKept

\* store.setReducer(stateId, reducer)
SetReducer ==
    \E stateId \in Slots, reducer \in ReducerNames :
        /\ last.op = "none"
        /\ reducers' = [reducers EXCEPT ![stateId] = reducer]
        /\ configured' = [configured EXCEPT ![stateId] = reducer]
        /\ UNCHANGED <<states, listeners, eventCount, last, maxStamp, lcount, unsubs,
                       globalStores, kept>>

ReducerEntries == {Entry(s, a) : s \in Slots, a \in {ActData, ActItem1, ActReplace}}

ReducerDispatch ==
    \E e \in ReducerEntries :
        /\ last.op = "none"
        /\ eventCount < MaxEvents
        /\ Truthy(JsGet(reducers, e.stateId))
        /\ dispatch(e.stateId, e.action)
        /\ UNCHANGED <<reducers, listeners, maxStamp, lcount, unsubs, globalStores, configured, kept>>

NextReducers == SetReducer \/ ReducerDispatch \/ Forget

SpecReducers == InitReducers /\ [][NextReducers]_vars

\* ------------------------------------------------------------- key items
\* A store with the slot s1 run by keyItemReducer, as in the tests:
\* new StoreImpl({ items: { item1: {...} } }, { items: keyItemReducer })
InitKeyItem ==
    /\ states = [s \in Slots |->
                    IF s = "s1"
                    THEN Obj(1, [k \in ItemKeys |->
                                    IF k = "item1" THEN Item([type |-> Undef, k1 |-> "i"])
                                    ELSE NoItem], NoSub)
                    ELSE Obj(2, [type |-> Undef, k1 |-> "i"], NoSub)]
    /\ reducers = [s \in Slots |-> IF s = "s1" THEN "keyItemReducer" ELSE "defaultReducer"]
    /\ configured = [s \in Slots |-> IF s = "s1" THEN "keyItemReducer" ELSE Undef]
    /\ listeners = [t \in Topics |-> <<[fn |-> "h1", reg |-> TopicIdx(t) - 1]>>]
    /\ eventCount = 0
    /\ last = NoCall
    /\ maxStamp = 0
    /\ lcount = Len(TopicOrder)
    /\ unsubs = [n \in 1..Len(TopicOrder) |->
                    [eventId |-> TopicOrder[n], listener |-> "h1", called |-> FALSE]]
    /\ globalStores = NoStores
    /\ kept = NoKept

\* the keys and the items the helpers are called with ('' is the empty key;
\* an omitted mergeItem is {} by `mergeItem ?? {}`)
KeyInputs == ItemKeys \cup {""}
Payloads == {NoFields, [type |-> Undef, k1 |-> "a"], [type |-> "t", k1 |-> "b"]}

\* dispatcher(keyItemAdd(id, item))
KeyItemAdd ==
    \E id \in KeyInputs, item \in Payloads :
        /\ last.op = "none"
        /\ eventCount < MaxEvents
        /\ dispatch("s1", keyItemAdd(id, item))
        /\ UNCHANGED <<reducers, listeners, maxStamp, lcount, unsubs, globalStores, configured, kept>>

\* dispatcher(keyItemMove(oldId, newId, mergeItem))
KeyItemMove ==
    \E oldId \in KeyInputs, newId \in KeyInputs, mergeItem \in Payloads :
        /\ last.op = "none"
        /\ eventCount < MaxEvents
        /\ dispatch("s1", keyItemMove(oldId, newId, mergeItem))
        /\ UNCHANGED <<reducers, listeners, maxStamp, lcount, unsubs, globalStores, configured, kept>>

\* dispatcher(keyItemRemove(id))
KeyItemRemove ==
    \E id \in KeyInputs :
        /\ last.op = "none"
        /\ eventCount < MaxEvents
        /\ dispatch("s1", keyItemRemove(id))
        /\ UNCHANGED <<reducers, listeners, maxStamp, lcount, unsubs, globalStores, configured, kept>>

\* dispatcher(item): an action with none of __key, __oldKey, __deleteKey
KeyItemPlain ==
    \E item \in Payloads :
        /\ last.op = "none"
        /\ eventCount < MaxEvents
        /\ dispatch("s1", Action([k \in Fields \cup KeyFields |->
                                    IF k \in Fields THEN item[k] ELSE Undef], NoSub))
        /\ UNCHANGED <<reducers, listeners, maxStamp, lcount, unsubs, globalStores, configured, kept>>

NextKeyItem == KeyItemAdd \/ KeyItemMove \/ KeyItemRemove \/ KeyItemPlain \/ Forget

SpecKeyItem == InitKeyItem /\ [][NextKeyItem]_vars

\* ---------------------------------------------------------------- slots
\* A store whose caller also sets a reducer for an id that is no key of
\* _initState and asks for its dispatcher.  (For that id the caller sets
\* defaultReducer, which returns an object whatever the slot holds.)
SlotIds == Slots \cup {NoSlot}

SlotSetReducer ==
    \E stateId \in SlotIds :
        \E reducer \in IF stateId \in Slots THEN ReducerNames ELSE {"defaultReducer"} :
            /\ last.op = "none"
            /\ reducers' = JsAssign(reducers, stateId, reducer)
            /\ configured' = JsAssign(configured, stateId, reducer)
            /\ UNCHANGED <<states, listeners, eventCount, last, maxStamp, lcount, unsubs,
                           globalStores, kept>>

\* store.getDispatcher(stateId)(action), where getDispatcher does not throw
SlotDispatch ==
    \E stateId \in SlotIds, action \in {ActData, ActItem1} :
        /\ last.op = "none"
        /\ eventCount < MaxEvents
        /\ Truthy(JsGet(reducers, stateId))
        /\ stateId \notin ProtoKeys
        /\ dispatch(stateId, action)
        /\ UNCHANGED <<reducers, listeners, maxStamp, lcount, unsubs, globalStores, configured, kept>>

\* store.getBatchDispatcher()(actions) on the slots that hold a value
SlotBatch ==
    \E actions \in UNION {[1..n -> {Entry(s, ActData) : s \in DOMAIN states}] : n \in 0..MaxBatch} :
        /\ last.op = "none"
        /\ eventCount < MaxEvents
        /\ batchDispatch(actions)
        /\ UNCHANGED <<reducers, listeners, maxStamp, lcount, unsubs, globalStores, configured, kept>>

NextSlots == SlotSetReducer \/ SlotDispatch \/ SlotBatch \/ Forget

SpecSlots == Init /\ [][NextSlots]_vars

\* ---------------------------------------------------------- kept events
\* A listener that keeps an event it was handed and reads it again after later
\* calls.  `states` of the event of a single dispatch is this.states itself
\* (states: this.states); that of a batch event is newStates, the object
\* batchDispatch assigns to this.states.  Either way the event's `states` is
\* the store's own map when the call returns (`live`).  prevState and
\* prevStates are spread copies no later call reaches.
EventEntries == {Entry("s1", ActData), Entry("s1", ActItem1), Entry("s2", ActReplace)}

\* the listener keeps one of the events of the latest call
Keep ==
    \E i \in 1..Len(last.log) :
        /\ kept = NoKept
        /\ kept' = [isBatch |-> last.log[i].ev.isBatch,
                    eventStamp |-> last.log[i].ev.eventStamp,
                    live |-> TRUE,
                    commit |-> states, shown |-> states,
                    prev |-> IF last.log[i].ev.isBatch THEN last.log[i].ev.prevStates
                             ELSE last.log[i].ev.prevState,
                    prevShown |-> IF last.log[i].ev.isBatch THEN last.log[i].ev.prevStates
                                  ELSE last.log[i].ev.prevState]
        /\ UNCHANGED <<states, reducers, listeners, eventCount, last, maxStamp, lcount, unsubs,
                       globalStores, configured>>

\* this.states[stateId] = newState: seen through a kept event whose `states`
\* is this.states
EventDispatch ==
    \E e \in EventEntries :
        /\ last.op = "none"
        /\ eventCount < MaxEvents
        /\ dispatch(e.stateId, e.action)
        /\ kept' = IF kept # NoKept /\ kept.live THEN [kept EXCEPT !.shown = states'] ELSE kept
        /\ UNCHANGED <<reducers, listeners, maxStamp, lcount, unsubs, globalStores, configured>>

\* this.states = newStates: a kept event's `states` is the former map from now on
EventBatch ==
    \E actions \in UNION {[1..n -> EventEntries] : n \in 0..MaxBatch} :
        /\ last.op = "none"
        /\ eventCount < MaxEvents
        /\ batchDispatch(actions)
        /\ kept' = IF kept # NoKept THEN [kept EXCEPT !.live = FALSE] ELSE kept
        /\ UNCHANGED <<reducers, listeners, maxStamp, lcount, unsubs, globalStores, configured>>

NextEvents == Keep \/ EventDispatch \/ EventBatch \/ Forget

SpecEvents == Init /\ [][NextEvents]_vars

\* ------------------------------------------------------- KeyItemHandler
\* new KeyItemHandler(state, dispatcher, itemId), with state the value the
\* slot holds at that time and dispatcher the slot's dispatcher.  kept is the
\* handler (this.state, this.itemId) and the caller's note of its last two calls.
HandlerPayloads == {[type |-> Undef, k1 |-> "a"], [type |-> Undef, k1 |-> "b"], NoFields}

InitHandler ==
    /\ states = [s \in Slots |->
                    IF s = "s1"
                    THEN Obj(1, [k \in ItemKeys |->
                                    IF k = "item1" THEN Item([type |-> Undef, k1 |-> "i"])
                                    ELSE NoItem], NoSub)
                    ELSE Obj(2, [type |-> Undef, k1 |-> "i"], NoSub)]
    /\ reducers = [s \in Slots |-> IF s = "s1" THEN "keyItemReducer" ELSE "defaultReducer"]
    /\ configured = [s \in Slots |-> IF s = "s1" THEN "keyItemReducer" ELSE Undef]
    /\ listeners = [t \in Topics |-> <<[fn |-> "h1", reg |-> TopicIdx(t) - 1]>>]
    /\ eventCount = 0
    /\ last = NoCall
    /\ maxStamp = 0
    /\ lcount = Len(TopicOrder)
    /\ unsubs = [n \in 1..Len(TopicOrder) |->
                    [eventId |-> TopicOrder[n], listener |-> "h1", called |-> FALSE]]
    /\ globalStores = NoStores
    /\ \E itemId \in ItemKeys :
          kept = [state |-> states["s1"], itemId |-> itemId,
                  op |-> "none", data |-> NoFields, prevOp |-> "none", prevData |-> NoFields]

\* KeyItemHandler.get(): this.state[this.itemId] if truthy, else {}
HandlerGet == ItemOrEmpty(kept.state.f, kept.itemId)

\* the caller's note of the call it makes
Noted(op, data) ==
    [kept EXCEPT !.op = op, !.data = data, !.prevOp = kept.op, !.prevData = kept.data]

HandlerCall(action) ==
    /\ last.op = "none"
    /\ eventCount < MaxEvents
    /\ dispatch("s1", action)
    /\ UNCHANGED <<reducers, listeners, maxStamp, lcount, unsubs, globalStores, configured>>

\* handler.add(data)
HandlerAdd ==
    \E data \in HandlerPayloads :
        /\ HandlerCall(keyItemAdd(kept.itemId, data))
        /\ kept' = Noted("add", data)

\* handler.merge(data): this.add({ ...this.get(), ...data })
HandlerMerge ==
    \E data \in HandlerPayloads :
        /\ HandlerCall(keyItemAdd(kept.itemId, SpreadF(HandlerGet, data)))
        /\ kept' = Noted("merge", data)

\* handler.move(newId, data)
HandlerMove ==
    \E newId \in ItemKeys, data \in HandlerPayloads :
        /\ HandlerCall(keyItemMove(kept.itemId, newId, data))
        /\ kept' = [Noted("move", data) EXCEPT !.itemId = newId]

\* handler.remove()
HandlerRemove ==
    /\ HandlerCall(keyItemRemove(kept.itemId))
    /\ kept' = Noted("remove", NoFields)

NextHandler == HandlerAdd \/ HandlerMerge \/ HandlerMove \/ HandlerRemove \/ Forget

SpecHandler == InitHandler /\ [][NextHandler]_vars

\* ---------------------------------------------------------- FormHandler
\* The store of the form tests: new StoreImpl({ form }) with
\* store.setReducer('form', formReducer); here a second slot, s1, is run by
\* formReducer as well.  kept is the FormHandler (this.state, this.validators)
\* and the caller's note of its latest call.
FormSlot == "form"
FormSlots == {FormSlot, "s1"}

\* the validators of the tests
Validators == {"isError", "isNumber", "startsWith2"}
MsgIsError == <<"is_error exists!">>
MsgNumber == <<"must be number">>
MsgStart2 == <<"must start with 2">>
JOIN == <<";; ">>
\* values.age?.match(/^\d+$/) and values.age?.match(/^2\d+$/) on the ages used
Ages == {Undef, "five", "20", "30"}
IsDigits(age) == age \in {"20", "30"}
IsTwoDigits(age) == age \in {"20"}

\* await validator(values): the errors it reports, a new object each time
Validate(validator, values) ==
    IF validator = "isError"
    THEN IF Truthy(values["is_error"])
         THEN [NoErrors EXCEPT !["is_error"] = FieldError(MsgIsError)] ELSE NoErrors
    ELSE IF validator = "isNumber"
    THEN IF ~IsDigits(values["age"])
         THEN [NoErrors EXCEPT !["age"] = FieldError(MsgNumber)] ELSE NoErrors
    ELSE IF ~IsTwoDigits(values["age"])
         THEN [NoErrors EXCEPT !["age"] = FieldError(MsgStart2)] ELSE NoErrors

\* (as Accumulate, but a later message replaces the earlier ones)
Accumulate_Replace(errors, field, err) == [errors EXCEPT ![field] = err]

\* if (errors[field]) errors[field].message += ';; ' + err.message
\* else errors[field] = err
Accumulate(errors, field, err) ==
    IF errors[field].here
    THEN [errors EXCEPT ![field].message = @ \o JOIN \o err.message]
    ELSE [errors EXCEPT ![field] = err]

\* for (const field in verrors)
RECURSIVE FieldLoop(_, _, _)
FieldLoop(verrors, i, errors) ==
    IF i > Len(FormFieldOrder) THEN errors
    ELSE FieldLoop(verrors, i + 1,
            IF verrors[FormFieldOrder[i]].here
            THEN Accumulate(errors, FormFieldOrder[i], verrors[FormFieldOrder[i]])
            ELSE errors)

\* for (const validator of this.validators)
RECURSIVE ValidatorLoop(_, _, _, _)
ValidatorLoop(validators, values, i, errors) ==
    IF i > Len(validators) THEN errors
    ELSE ValidatorLoop(validators, values, i + 1,
                       FieldLoop(Validate(validators[i], values), 1, errors))

NoReturn == [def |-> FALSE, v |-> NoErrors]
FormNoted(op) ==
    [kept EXCEPT !.op = op, !.ret = NoReturn, !.dispatchOnError = FALSE, !.forceDispatch = FALSE]

FormValues == {[is_error |-> "true", age |-> "five"], [is_error |-> Undef, age |-> "20"],
               [is_error |-> Undef, age |-> "30"]}
FormErrors == {NoErrors, [NoErrors EXCEPT !["age"] = FieldError(<<"erase plz">>)]}
ValidatorLists == {<<"isError", "isNumber", "startsWith2">>, <<"startsWith2", "isNumber">>, <<>>}

\* new StoreImpl({ form, s1 }), setReducer(_, formReducer),
\* new FormHandler(store.getState('form'), store.getDispatcher('form'), validators)
InitForm ==
    /\ \E values \in FormValues, validators \in ValidatorLists :
          /\ states = [s \in FormSlots |->
                          IF s = FormSlot
                          THEN Obj(SlotIdx(s), FormState("clean", Undef, NoOp, NoParams, values,
                                   [NoErrors EXCEPT !["age"] = FieldError(<<"erase plz">>)]), NoSub)
                          ELSE Obj(SlotIdx(s), getFormState, NoSub)]
          /\ kept = [state |-> states[FormSlot].f, validators |-> validators, op |-> "none",
                     ret |-> NoReturn, dispatchOnError |-> FALSE, forceDispatch |-> FALSE]
    /\ reducers = [s \in FormSlots |-> "formReducer"]
    /\ configured = [s \in FormSlots |-> "formReducer"]
    /\ listeners = [t \in Topics |-> <<>>]
    /\ eventCount = 0
    /\ last = NoCall
    /\ maxStamp = 0
    /\ lcount = 0
    /\ unsubs = <<>>
    /\ globalStores = NoStores

\* a call that dispatches nothing
Idle(op) == last' = [NoCall EXCEPT !.op = op, !.pre = states, !.post = states]

FormCall(stateId, action) ==
    /\ last.op = "none"
    /\ eventCount < MaxEvents
    /\ dispatch(stateId, action)
    /\ UNCHANGED <<reducers, listeners, maxStamp, lcount, unsubs, globalStores, configured>>

\* formHandler.hasErrors(dispatchOnError, forceDispatch)
FormHasErrors ==
    \E dispatchOnError \in BOOLEAN, forceDispatch \in BOOLEAN :
        LET errors   == ValidatorLoop(kept.validators, kept.state.values, 1, NoErrors)
            errCount == Cardinality({x \in FormFieldNames : errors[x].here})
        IN  /\ last.op = "none"
            /\ eventCount < MaxEvents
            /\ IF (errCount > 0 \/ forceDispatch) /\ (dispatchOnError \/ forceDispatch)
               THEN dispatch(FormSlot, setErrors(errors))
               ELSE Idle("hasErrors") /\ UNCHANGED <<states, eventCount>>
            /\ kept' = [kept EXCEPT !.op = "hasErrors",
                                    !.dispatchOnError = dispatchOnError,
                                    !.forceDispatch = forceDispatch,
                                    !.ret = IF errCount > 0 \/ forceDispatch
                                            THEN Given(errors) ELSE NoReturn]
            /\ UNCHANGED <<reducers, listeners, maxStamp, lcount, unsubs, globalStores,
                           configured>>

\* the operations the handler is asked for: name and params
OpCall(op, params) == [op |-> op, params |-> params]
OP_TEST == <<"t", "e", "s", "t">>
FormOpCalls ==
    {OpCall(OP_SUBMIT, NoParams),
     OpCall(OP_SUBMIT \o <<".", "x">>, Given(EmptyParams)),
     OpCall(OP_SUBMIT, Given(ExecOpParams(Undef,
                Given([NoErrors EXCEPT !["age"] = FieldError(<<"bad">>)]), "false", Undef))),
     OpCall(OP_TEST, Given(ExecOpParams("true", NoSetErrors, "true", "param"))),
     OpCall(OP_TEST, NoParams),
     OpCall(<<"r", "e">> \o OP_SUBMIT, Given(ExecOpParams("false", NoSetErrors, Undef, Undef))),
     OpCall(OP_EMPTY, NoParams)}

\* formHandler.doOperation(op, params) / submit(params) / resetOperation(params)
FormDoOperation ==
    \E c \in FormOpCalls :
        /\ FormCall(FormSlot, execOp(c.op, c.params))
        /\ kept' = FormNoted("execOp")

\* dispatcher(setErrors(errors))
FormSetErrors ==
    \E errors \in FormErrors :
        /\ FormCall(FormSlot, setErrors(errors))
        /\ kept' = FormNoted("setErrors")

\* formHandler.softReset(): reset({ values: this.state.values })
FormSoftReset ==
    /\ FormCall(FormSlot, resetForm(TRUE, kept.state.values, FALSE, NoErrors))
    /\ kept' = FormNoted("reset")

\* formHandler.update(field, value)
FormUpdate ==
    \E value \in {"20", "five"} :
        /\ FormCall(FormSlot, updateField("age", value))
        /\ kept' = FormNoted("update")

\* formHandler.updateMany(map)
FormUpdateMany ==
    /\ FormCall(FormSlot, updateFields([is_error |-> "true", age |-> "30"]))
    /\ kept' = FormNoted("updateMany")

\* a dispatcher of either slot called with an action of a type formReducer
\* does not know
FormOther ==
    \E stateId \in FormSlots :
        /\ FormCall(stateId, Action(FormAction("other"), NoSub))
        /\ kept' = FormNoted("other")

\* formHandler.setState(store.getState('form'))
FormSetState ==
    /\ last.op = "none"
    /\ kept.state # states[FormSlot].f
    /\ kept' = [kept EXCEPT !.state = states[FormSlot].f]
    /\ UNCHANGED <<states, reducers, listeners, eventCount, last, maxStamp, lcount, unsubs,
                   globalStores, configured>>

NextForm ==
    \/ FormHasErrors \/ FormDoOperation \/ FormSetErrors \/ FormSoftReset
    \/ FormUpdate \/ FormUpdateMany \/ FormOther \/ FormSetState \/ Forget

SpecForm == InitForm /\ [][NextForm]_vars

\* ------------------------------------------------------------ re-entry
\* A listener that dispatches from inside its callback.  Emitter.emit calls
\* each handler synchronously, so the dispatch the handler makes runs to its
\* end, emission included, before emit goes on to the next handler.
\* h1 is registered on s1 before h2, h2 also on postCommit; when h1 is handed
\* the event of a Trigger action it dispatches an action of its own to s1.
Trigger == {Action([type |-> ty, k1 |-> "a"], NoSub) : ty \in {Undef, "t"}}
Inner == {Action([type |-> ty, k1 |-> v], NoSub) : ty \in {Undef, "t", "u"}, v \in {"b", "d"}}
Plain == {Action([type |-> ty, k1 |-> "c"], NoSub) : ty \in {Undef, "t"}}

InitReentrant ==
    /\ states = [s \in Slots |-> Obj(SlotIdx(s), [type |-> Undef, k1 |-> "i"], NoSub)]
    /\ reducers = [s \in Slots |-> "defaultReducer"]
    /\ configured = [s \in Slots |-> Undef]
    /\ listeners = [t \in Topics |->
                       IF t = SlotTopic("s1")
                       THEN <<[fn |-> "h1", reg |-> 0], [fn |-> "h2", reg |-> 1]>>
                       ELSE IF t = POST_COMMIT THEN <<[fn |-> "h2", reg |-> 2]>>
                       ELSE <<>>]
    /\ eventCount = 0
    /\ last = NoCall
    /\ maxStamp = 0
    /\ lcount = 3
    /\ unsubs = <<[eventId |-> SlotTopic("s1"), listener |-> "h1", called |-> FALSE],
                  [eventId |-> SlotTopic("s1"), listener |-> "h2", called |-> FALSE],
                  [eventId |-> POST_COMMIT, listener |-> "h2", called |-> FALSE]>>
    /\ globalStores = NoStores
    /\ kept = NoKept

\* StoreImpl.dispatch run on the store as it stands (sts, count), for an
\* action without __subEvents on a slot whose value has none
DispatchFrom(sts, count, stateId, action) ==
    LET prevState == Copy(StateGet(sts, stateId), FreshRef(RefsOf(sts)))
        newState  == Reduce(reducers[stateId], stateId, action, sts,
                            FreshRef(RefsOf(sts) \cup {prevState.ref}))
        sts1      == JsAssign(sts, stateId, newState)
        r         == EmitCommitted(stateId,
                         StoreEventAction(stateId, count + 1, sts1, action, prevState), sts1)
    IN  [sts |-> r.sts, count |-> count + 1, log |-> r.log, ret |-> newState]

\* dispatcher(a1), during which h1 calls dispatcher(a2)
ReentrantDispatch ==
    \E a1 \in Trigger, a2 \in Inner :
        LET outer == DispatchFrom(states, eventCount, "s1", a1)
            at    == CHOOSE i \in 1..Len(outer.log) :
                        /\ outer.log[i].h = "h1"
                        /\ \A j \in 1..(i - 1) : outer.log[j].h # "h1"
            inner == DispatchFrom(outer.sts, outer.count, "s1", a2)
            rest  == [i \in 1..(Len(outer.log) - at) |->
                         [outer.log[at + i] EXCEPT !.ev.states = LiveStates(inner.sts)]]
        IN  /\ last.op = "none"
            /\ eventCount < MaxEvents
            /\ states' = Canon(inner.sts)
            /\ eventCount' = inner.count
            /\ last' = [NoCall EXCEPT !.op = "dispatch", !.stateId = "s1", !.action = a1,
                            !.pre = states, !.post = inner.sts, !.stateIds = <<"s1">>,
                            !.rcalls = <<[stateId |-> "s1", action |-> a1,
                                          seen |-> states, ret |-> outer.ret]>>,
                            !.log = SubSeq(outer.log, 1, at) \o inner.log \o rest]
            /\ UNCHANGED <<reducers, listeners, maxStamp, lcount, unsubs, globalStores,
                           configured, kept>>

\* dispatcher(a) for an action on which h1 does not dispatch
PlainDispatch ==
    \E stateId \in Slots, a \in Plain :
        /\ last.op = "none"
        /\ eventCount < MaxEvents
        /\ dispatch(stateId, a)
        /\ UNCHANGED <<reducers, listeners, maxStamp, lcount, unsubs, globalStores, configured, kept>>

NextReentrant == ReentrantDispatch \/ PlainDispatch \/ Forget

SpecReentrant == InitReentrant /\ [][NextReentrant]_vars

\* ------------------------------------------------- the caller's action
\* The calling code keeps one action object and passes it to the store more
\* than once: kept.action is the object as it stands, kept.given its contents
\* when it was written, kept.logs the topics each dispatcher call emitted on.
\* { __subEvents: { '!': true } }
ActQuiet == Action(NoFields, Lit(<<P(Sentinel, "true")>>))
HeldActions == {ActData, ActReplace, ActItem1, ActItem2X, ActMixed, ActQuiet}

InitAction ==
    /\ states = [s \in Slots |-> Obj(SlotIdx(s), [type |-> Undef, k1 |-> "i"], NoSub)]
    /\ reducers = [s \in Slots |-> "defaultReducer"]
    /\ configured = [s \in Slots |-> Undef]
    /\ listeners = [t \in Topics |-> <<[fn |-> "h1", reg |-> TopicIdx(t) - 1]>>]
    /\ eventCount = 0
    /\ last = NoCall
    /\ maxStamp = 0
    /\ lcount = Len(TopicOrder)
    /\ unsubs = [n \in 1..Len(TopicOrder) |->
                    [eventId |-> TopicOrder[n], listener |-> "h1", called |-> FALSE]]
    /\ globalStores = NoStores
    /\ \E a \in HeldActions, s \in Slots :
           kept = [action |-> a, given |-> a, stateId |-> s, logs |-> <<>>]

\* The action object after dispatch has run defaultReducer on it:
\* { ...states[stateId], ...action } copies the reference action.__subEvents
\* holds, so the committed value's map is the action's own map, and
\* `delete newState[KEY_SUBEVENTS]['!']` takes the key from both.
AfterDispatch(action, committed) ==
    IF action.sub.def THEN [action EXCEPT !.sub = committed.sub] ELSE action

\* The action object after batchDispatch: the committed value is given a map
\* of its own ({ ...lastSubEvents, ...newSubEvents }) before anything is
\* deleted, so the action's map is not reached.
AfterBatch(action, committed) == action

TopicsOf(log) == [i \in 1..Len(log) |-> log[i].topic]

\* dispatcher(action) with the kept object
HeldDispatch ==
    /\ last.op = "none"
    /\ eventCount < MaxEvents
    /\ dispatch(kept.stateId, kept.action)
    /\ kept' = [kept EXCEPT !.action = AfterDispatch(@, last'.post[kept.stateId]),
                            !.logs = Append(@, TopicsOf(last'.log))]
    /\ UNCHANGED <<reducers, listeners, maxStamp, lcount, unsubs, globalStores, configured>>

\* batchDispatcher([[stateId, action]]) with the kept object
HeldBatch ==
    /\ last.op = "none"
    /\ eventCount < MaxEvents
    /\ batchDispatch(<<Entry(kept.stateId, kept.action)>>)
    /\ kept' = [kept EXCEPT !.action = AfterBatch(@, last'.post[kept.stateId])]
    /\ UNCHANGED <<reducers, listeners, maxStamp, lcount, unsubs, globalStores, configured>>

NextAction == HeldDispatch \/ HeldBatch \/ Forget

SpecAction == InitAction /\ [][NextAction]_vars

\* ------------------------------------------- listeners during delivery
\* Handlers that change the registrations of the topic they are invoked on:
\* hOn registers h3 on it (store.listenFor), hOff calls the closure that
\* unsubscribes h2 from it; h2 and h3 do nothing to the store.  Only the
\* topic of slot s1 has listeners here.
DeliveryTopic == SlotTopic("s1")
DeliveryHandlers == {"hOn", "hOff", "h2"}

\* unsub = store.listenFor('s1', listener), by the calling code
DeliveryListenFor ==
    \E listener \in DeliveryHandlers :
        /\ last.op = "none"
        /\ lcount < MaxListen
        /\ listeners' = on(DeliveryTopic, listener)
        /\ lcount' = lcount + 1
        /\ unsubs' = Append(unsubs, [eventId |-> DeliveryTopic, listener |-> listener,
                                     called |-> FALSE])
        /\ UNCHANGED <<states, reducers, eventCount, last, maxStamp, globalStores, configured, kept>>

\* Emitter.emit with handlers that call on and off meanwhile.  acc.arr is the
\* array the for-of loop goes through, which it reads anew at every step;
\* acc.cur is this._listeners[eventId], and acc.same says that the two are one
\* array.  on pushes onto this._listeners[eventId]; off puts a filtered copy
\* in its place.
RECURSIVE EmitLoop(_, _, _, _)
EmitLoop(topic, ev, i, acc) ==
    IF i > Len(acc.arr) THEN acc
    ELSE LET fn == acc.arr[i]
             a1 == [acc EXCEPT !.log = Append(@, [h |-> fn.fn, reg |-> fn.reg,
                                                  topic |-> topic, ev |-> ev])]
         IN  IF fn.fn = "hOn"
             THEN LET cur == Append(acc.cur, [fn |-> "h3", reg |-> acc.count])
                  IN  EmitLoop(topic, ev, i + 1,
                          [a1 EXCEPT !.cur = cur,
                                     !.arr = IF acc.same THEN cur ELSE @,
                                     !.count = @ + 1,
                                     !.unsubs = Append(@, [eventId |-> topic, listener |-> "h3",
                                                           called |-> FALSE])])
             ELSE IF fn.fn = "hOff"
             THEN EmitLoop(topic, ev, i + 1,
                      [a1 EXCEPT !.cur = SelectSeq(@, LAMBDA f : f.fn # "h2"),
                                 !.same = FALSE,
                                 !.unsubs = [n \in 1..Len(@) |->
                                                IF @[n].listener = "h2"
                                                THEN [@[n] EXCEPT !.called = TRUE] ELSE @[n]]])
             ELSE EmitLoop(topic, ev, i + 1, a1)

\* dispatcher(a) on s1, for an action without __subEvents; kept.began is the
\* array of the topic as it is when emit is entered
DeliveryDispatch ==
    \E a \in Plain :
        LET prevState == Copy(StateGet(states, "s1"), FreshRef(RefsOf(states)))
            newState  == Reduce(reducers["s1"], "s1", a, states,
                                FreshRef(RefsOf(states) \cup {prevState.ref}))
            sts1      == JsAssign(states, "s1", newState)
            ev        == StoreEventAction("s1", makeEventStamp, sts1, a, prevState)
            d         == EmitLoop(DeliveryTopic, ev, 1,
                             [arr |-> listeners[DeliveryTopic], cur |-> listeners[DeliveryTopic],
                              same |-> TRUE, count |-> lcount, unsubs |-> unsubs, log |-> <<>>])
        IN  /\ last.op = "none"
            /\ eventCount < MaxEvents
            /\ states' = Canon(sts1)
            /\ eventCount' = makeEventStamp
            /\ listeners' = [listeners EXCEPT ![DeliveryTopic] = d.cur]
            /\ lcount' = d.count
            /\ unsubs' = d.unsubs
            /\ kept' = [began |-> listeners[DeliveryTopic]]
            /\ last' = [NoCall EXCEPT !.op = "dispatch", !.stateId = "s1", !.action = a,
                            !.pre = states, !.post = sts1, !.stateIds = <<"s1">>,
                            !.rcalls = <<[stateId |-> "s1", action |-> a,
                                          seen |-> states, ret |-> newState]>>,
                            !.log = d.log \o emit(POST_COMMIT, ev)]
            /\ UNCHANGED <<reducers, maxStamp, globalStores, configured>>

InitDelivery ==
    /\ states = [s \in Slots |-> Obj(SlotIdx(s), [type |-> Undef, k1 |-> "i"], NoSub)]
    /\ reducers = [s \in Slots |-> "defaultReducer"]
    /\ configured = [s \in Slots |-> Undef]
    /\ listeners = [t \in Topics |-> <<>>]
    /\ eventCount = 0
    /\ last = NoCall
    /\ maxStamp = 0
    /\ lcount = 0
    /\ unsubs = <<>>
    /\ globalStores = NoStores
    /\ kept = [began |-> <<>>]

NextDelivery == DeliveryListenFor \/ DeliveryDispatch \/ Forget

SpecDelivery == InitDelivery /\ [][NextDelivery]_vars

\* ----------------------------------------------------- an item named '!'
\* The keyed collection of s1 with '!' among the keys its items may have.
BangKeys == ItemKeys \cup {Sentinel}

InitBang ==
    /\ states = [s \in Slots |->
                    IF s = "s1"
                    THEN Obj(1, [k \in BangKeys |->
                                    IF k = "item1" THEN Item([type |-> Undef, k1 |-> "i"])
                                    ELSE NoItem], NoSub)
                    ELSE Obj(2, [type |-> Undef, k1 |-> "i"], NoSub)]
    /\ reducers = [s \in Slots |-> IF s = "s1" THEN "keyItemReducer" ELSE "defaultReducer"]
    /\ configured = [s \in Slots |-> IF s = "s1" THEN "keyItemReducer" ELSE Undef]
    /\ listeners = [t \in Topics |-> <<[fn |-> "h1", reg |-> TopicIdx(t) - 1]>>]
    /\ eventCount = 0
    /\ last = NoCall
    /\ maxStamp = 0
    /\ lcount = Len(TopicOrder)
    /\ unsubs = [n \in 1..Len(TopicOrder) |->
                    [eventId |-> TopicOrder[n], listener |-> "h1", called |-> FALSE]]
    /\ globalStores = NoStores
    /\ kept = NoKept

\* dispatcher(keyItemAdd(id, item))
BangAdd ==
    \E id \in BangKeys, item \in Payloads :
        /\ last.op = "none"
        /\ eventCount < MaxEvents
        /\ dispatch("s1", keyItemAdd(id, item))
        /\ UNCHANGED <<reducers, listeners, maxStamp, lcount, unsubs, globalStores, configured, kept>>

\* dispatcher(keyItemMove(oldId, newId))
BangMove ==
    \E oldId \in BangKeys, newId \in BangKeys :
        /\ last.op = "none"
        /\ eventCount < MaxEvents
        /\ dispatch("s1", keyItemMove(oldId, newId, NoFields))
        /\ UNCHANGED <<reducers, listeners, maxStamp, lcount, unsubs, globalStores, configured, kept>>

\* dispatcher(keyItemRemove(id))
BangRemove ==
    \E id \in BangKeys :
        /\ last.op = "none"
        /\ eventCount < MaxEvents
        /\ dispatch("s1", keyItemRemove(id))
        /\ UNCHANGED <<reducers, listeners, maxStamp, lcount, unsubs, globalStores, configured, kept>>

NextBang == BangAdd \/ BangMove \/ BangRemove \/ Forget

SpecBang == InitBang /\ [][NextBang]_vars

\* ----------------------------------------------------------- round trip
\* The calling code of the keyed-reducer tests: on an empty collection it
\* dispatches keyItemAdd(k, item), keyItemMove(k, k2) and keyItemRemove(k2) in
\* turn and reads the slot's __subEvents after each call.
TripPayloads == Payloads \cup {[type |-> "t", k1 |-> Undef]}

InitRoundTrip ==
    /\ states = [s \in Slots |->
                    IF s = "s1" THEN Obj(1, [k \in ItemKeys |-> NoItem], NoSub)
                    ELSE Obj(2, [type |-> Undef, k1 |-> "i"], NoSub)]
    /\ reducers = [s \in Slots |-> IF s = "s1" THEN "keyItemReducer" ELSE "defaultReducer"]
    /\ configured = [s \in Slots |-> IF s = "s1" THEN "keyItemReducer" ELSE Undef]
    /\ listeners = [t \in Topics |-> <<[fn |-> "h1", reg |-> TopicIdx(t) - 1]>>]
    /\ eventCount = 0
    /\ last = NoCall
    /\ maxStamp = 0
    /\ lcount = Len(TopicOrder)
    /\ unsubs = [n \in 1..Len(TopicOrder) |->
                    [eventId |-> TopicOrder[n], listener |-> "h1", called |-> FALSE]]
    /\ globalStores = NoStores
    /\ \E k \in ItemKeys, k2 \in ItemKeys, item \in TripPayloads :
          kept = [k |-> k, k2 |-> k2, item |-> item, pc |-> 0, subs |-> <<>>]

\* the caller's next step: it notes the __subEvents the slot holds after the call
TripStep(action) ==
    /\ last.op = "none"
    /\ dispatch("s1", action)
    /\ kept' = [kept EXCEPT !.pc = @ + 1, !.subs = Append(@, states'["s1"].sub)]
    /\ UNCHANGED <<reducers, listeners, maxStamp, lcount, unsubs, globalStores, configured>>

TripAdd ==
    /\ kept.pc = 0
    /\ TripStep(keyItemAdd(kept.k, kept.item))

TripMove ==
    /\ kept.pc = 1
    /\ TripStep(keyItemMove(kept.k, kept.k2, NoFields))

TripRemove ==
    /\ kept.pc = 2
    /\ TripStep(keyItemRemove(kept.k2))

NextRoundTrip == TripAdd \/ TripMove \/ TripRemove \/ Forget

SpecRoundTrip == InitRoundTrip /\ [][NextRoundTrip]_vars

\* =================================================================
\* What the latest call did, read from its record
\* =================================================================
IsDispatch == last.op = "dispatch"
IsBatch == last.op = "batch" /\ ~last.threw

\* the invocations made on a topic, in order
On(topic) == SelectSeq(last.log, LAMBDA d : d.topic = topic)
\* the positions in the record of the invocations on a topic
At(topic) == {i \in 1..Len(last.log) : last.log[i].topic = topic}
\* the sub-keys of stateId whose events were delivered, in order of delivery
DeliveredSubKeys(stateId) ==
    LET ds == SelectSeq(last.log, LAMBDA d : Len(d.topic) = 2 /\ d.topic[1] = stateId)
    IN  [i \in 1..Len(ds) |-> ds[i].topic[2]]

\* the object the reducer returned to the single dispatch
Returned == last.rcalls[1].ret
\* the reducer returned the very object the slot held
ReturnedStored == Returned.ref = last.pre[last.stateId].ref

OtherKeys(kv) == {kv[i].k : i \in 1..Len(kv)} \ {Sentinel}
\* the sentinel of this map is truthy and the map has another sub-key
Suppresses(kv) == Truthy(GetKey(kv, Sentinel)) /\ OtherKeys(kv) # {}

\* -----------------------------------------------------------------
\* C1: a single dispatch whose reducer returns the very object stored in
\* the slot leaves the slot's value unchanged and invokes no listener: none
\* on the slot's topic, none on a sub-key topic of the slot, none on
\* postCommit.
C1_NoOpDispatch ==
    (IsDispatch /\ ReturnedStored) =>
        /\ states[last.stateId] = last.pre[last.stateId]
        /\ \A i \in 1..Len(last.log) :
              /\ last.log[i].topic # SlotTopic(last.stateId)
              /\ last.log[i].topic # POST_COMMIT
              /\ \A k \in SubKeys : last.log[i].topic # SubTopic(last.stateId, k)

\* -----------------------------------------------------------------
\* The left fold of a batch: every entry's reducer applied to the result of
\* the entries before it.
RECURSIVE LeftFold(_, _, _)
LeftFold(actions, i, sts) ==
    IF i > Len(actions) THEN sts
    ELSE LeftFold(actions, i + 1,
             [sts EXCEPT ![actions[i].stateId] =
                 Reduce(reducers[actions[i].stateId], actions[i].stateId,
                        actions[i].action, sts, FreshRef(RefsOf(sts)))])

\* C2: in a batch the reducer of the i-th entry is handed a snapshot in
\* which every slot holds the value produced by entries 1..i-1 (the working
\* copy), and the value committed for each slot is the result of applying
\* its entries one after another starting from the pre-batch value.
C2_BatchLeftFold ==
    IsBatch =>
        /\ \A i \in 1..Len(last.rcalls) : \A s \in Slots :
              Content(last.rcalls[i].seen[s])
                  = Content(IF i = 1 THEN last.pre[s] ELSE last.work[i - 1][s])
        /\ \A s \in Slots : states[s].f = LeftFold(last.batch, 1, last.pre)[s].f

\* -----------------------------------------------------------------
\* C3: a single dispatch whose reducer returns another object than the stored
\* one (even a deeply equal one) stores the returned object and, unless the
\* sentinel suppresses the slot-wide event, invokes every listener of the
\* slot's topic exactly once, with isBatch false, stateId = eventId = the
\* slot, the dispatched action, and prevState equal to the value the slot
\* held right before.
C3_DispatchCommits ==
    (IsDispatch /\ ~ReturnedStored) =>
        LET s == last.stateId IN
        /\ last.post[s].ref = Returned.ref
        /\ states[s].f = Returned.f
        /\ SubOrEmpty(states[s]) = JsDelete(SubOrEmpty(Returned), Sentinel)
        /\ ~Suppresses(SubOrEmpty(Returned)) =>
              /\ Len(On(SlotTopic(s))) = Len(listeners[SlotTopic(s)])
              /\ \A i \in 1..Len(On(SlotTopic(s))) :
                    LET d == On(SlotTopic(s))[i] IN
                    /\ d.h = listeners[SlotTopic(s)][i].fn
                    /\ d.ev.isBatch = FALSE
                    /\ d.ev.stateId = s
                    /\ d.ev.eventId = s
                    /\ d.ev.action = last.action
                    /\ Content(d.ev.prevState) = Content(last.pre[s])

\* a dispatch that stored a new object deeply equal to the old one, and told
\* the slot's listener
C3_Witness ==
    /\ IsDispatch /\ ~ReturnedStored
    /\ Content(Returned) = Content(last.pre[last.stateId])
    /\ Len(On(SlotTopic(last.stateId))) = 1

\* -----------------------------------------------------------------
\* C4: all events one call delivers (sub-key, slot-wide, postCommit, of every
\* slot it touched) carry one stamp, and that stamp is larger than the stamp
\* of every event delivered by an earlier call on the store.
C4_Stamps ==
    \A i \in 1..Len(last.log) :
        /\ last.log[i].ev.eventStamp = last.log[1].ev.eventStamp
        /\ last.log[i].ev.eventStamp > maxStamp

\* a batch that delivered events of two slots after an earlier call had
\* delivered some
C4_Witness ==
    /\ IsBatch
    /\ Len(last.stateIds) = 2
    /\ maxStamp > 0
    /\ \A s \in Slots : At(SlotTopic(s)) # {}
    /\ At(POST_COMMIT) # {}

\* -----------------------------------------------------------------
\* The entries of the latest batch that changed a slot: those whose reducer
\* returned another object than the one the slot held before the batch.
ChangingEntries(s) ==
    {i \in 1..Len(last.batch) :
        last.batch[i].stateId = s /\ last.rcalls[i].ret.ref # last.pre[s].ref}
ChangedSlots == {s \in Slots : ChangingEntries(s) # {}}
FirstChange(s) == CHOOSE i \in ChangingEntries(s) : \A j \in ChangingEntries(s) : i <= j
\* the actions of the entries that changed s, in input order
ActionsOn(s) ==
    LET idx == SelectSeq([i \in 1..Len(last.batch) |-> i], LAMBDA i : i \in ChangingEntries(s))
    IN  [j \in 1..Len(idx) |-> last.batch[idx[j]].action]
\* q lists the changed slots, each once, in the order of their first change
ListsChangedSlots(q) ==
    /\ Len(q) = Cardinality(ChangedSlots)
    /\ {q[i] : i \in 1..Len(q)} = ChangedSlots
    /\ \A a, b \in 1..Len(q) : a < b => FirstChange(q[a]) < FirstChange(q[b])

\* the slots the latest call committed a change to
CommittedSlots == IF last.op = "dispatch" THEN {last.stateId} ELSE ChangedSlots
\* the __subEvents of the value committed for s, before the engine strips it
CommittedMap(s) ==
    IF last.op = "dispatch" THEN SubOrEmpty(Returned)
    ELSE SubOrEmpty(last.work[Len(last.work)][s])

\* a states map without the sentinels (event.states is the live map, from which
\* the engine deletes the sentinel of a slot when it comes to that slot)
NoSentinel(sts) ==
    [s \in DOMAIN sts |-> [f |-> sts[s].f, def |-> sts[s].sub.def,
                            kv |-> JsDelete(sts[s].sub.kv, Sentinel)]]

BatchEventsAlike ==
    /\ \A s \in Slots : \A i \in At(SlotTopic(s)) :
          /\ last.log[i].ev.isBatch
          /\ ListsChangedSlots(last.log[i].ev.batchStateIds)
          /\ last.log[i].ev.batchActions = ActionsOn(s)
          /\ last.log[i].ev.prevStates = last.pre
    /\ \A i, j \in 1..Len(last.log) :
          /\ NoSentinel(last.log[i].ev.states) = NoSentinel(last.log[j].ev.states)
          /\ last.log[i].ev.prevStates = last.log[j].ev.prevStates

C6_BatchAborts ==
    (last.op = "batch"
        /\ \E i \in 1..Len(last.batch) : last.batch[i].stateId \notin DOMAIN reducers) =>
        /\ last.threw
        /\ states = last.pre
        /\ last.log = <<>>

\* a batch that threw at its second entry after a first entry that changes s1
C6_Witness ==
    /\ last.op = "batch" /\ last.threw
    /\ Len(last.batch) = 2
    /\ last.batch[1] = Entry("s1", ActItem1)
    /\ last.batch[2].stateId = NoSlot

\* -----------------------------------------------------------------
\* The order in which the sub-keys of s first entered its map: the keys of
\* the map the working copy started with, then what each changing entry added.
RECURSIVE AppendNew(_, _)
AppendNew(order, ks) ==
    IF ks = <<>> THEN order
    ELSE AppendNew(IF \E i \in 1..Len(order) : order[i] = Head(ks)
                   THEN order ELSE Append(order, Head(ks)), Tail(ks))

RECURSIVE EnteredFrom(_, _, _)
EnteredFrom(s, i, order) ==
    IF i > Len(last.batch) THEN order
    ELSE EnteredFrom(s, i + 1,
             IF i \in ChangingEntries(s)
             THEN AppendNew(order, KeysOf(SubOrEmpty(last.rcalls[i].ret)))
             ELSE order)

Entered(s) ==
    SelectSeq(IF last.op = "dispatch" THEN KeysOf(SubOrEmpty(Returned))
              ELSE EnteredFrom(s, 1, KeysOf(SubOrEmpty(last.pre[s]))),
              LAMBDA k : k # Sentinel)

RECURSIVE Ascending(_)
Ascending(S) ==
    IF S = {} THEN <<>>
    ELSE LET m == CHOOSE x \in S : \A y \in S : IndexVal(x) <= IndexVal(y)
         IN  <<m>> \o Ascending(S \ {m})

\* array-index keys first, ascending; then the others in the order given
IndexFirst(q) ==
    Ascending({q[i] : i \in 1..Len(q)} \cap IndexKeys)
        \o SelectSeq(q, LAMBDA k : k \notin IndexKeys)

SubEventsFirst(s) ==
    \A i \in 1..Len(last.log), j \in At(SlotTopic(s)) :
        (Len(last.log[i].topic) = 2 /\ last.log[i].topic[1] = s) => i < j

\* C7 as stated: in one dispatch or batch the sub-key events of a changed
\* slot come before its slot-wide event, in the order in which their
\* sub-keys first entered the (merged) SubEvents map.
C7_Original ==
    (IsDispatch \/ IsBatch) =>
        \A s \in CommittedSlots :
            SubEventsFirst(s) /\ DeliveredSubKeys(s) = Entered(s)

\* C7 (amended): the sub-key events of a changed slot come before its
\* slot-wide event, in the for-in order of the map: the sub-keys that are
\* array indices first, in ascending numeric order, then the other sub-keys
\* in the order in which they first entered the map.
C7_SubEventOrder ==
    (IsDispatch \/ IsBatch) =>
        \A s \in CommittedSlots :
            SubEventsFirst(s) /\ DeliveredSubKeys(s) = IndexFirst(Entered(s))

\* a batch whose first entry gave s1 the key item1 and whose second gave it
\* the key 1: delivered 1, item1, then the slot-wide event
C7_Witness ==
    /\ IsBatch
    /\ last.batch = <<Entry("s1", ActItem1), Entry("s1", ActMixed)>>
    /\ DeliveredSubKeys("s1") = <<"1", "item1">>
    /\ At(SlotTopic("s1")) # {}

\* -----------------------------------------------------------------
\* C8: the slot-wide event of a committed change is withheld if and only if
\* the sentinel of the new value's SubEvents map is truthy and the map has
\* at least one other sub-key; the sub-key events are delivered either way.
C8_Suppression ==
    (IsDispatch \/ IsBatch) =>
        \A s \in CommittedSlots :
            /\ (At(SlotTopic(s)) = {}) <=> Suppresses(CommittedMap(s))
            /\ \A k \in OtherKeys(CommittedMap(s)) :
                  Cardinality(At(SubTopic(s, k))) = Len(listeners[SubTopic(s, k)])

\* a dispatch whose slot-wide event was withheld while its sub-key event was
\* delivered
C8_Witness ==
    /\ IsDispatch
    /\ Suppresses(CommittedMap(last.stateId))
    /\ At(SlotTopic(last.stateId)) = {}
    /\ At(SubTopic(last.stateId, "item2")) # {}

\* -----------------------------------------------------------------
\* C9: every dispatch or batch that commits a change to a slot delivers one
\* postCommit event per changed slot, with the payload of the slot-wide
\* event and after it.
C9_PostCommit ==
    (IsDispatch \/ IsBatch) =>
        \A s \in CommittedSlots :
            LET pc == {i \in At(POST_COMMIT) : last.log[i].ev.eventId = s} IN
            /\ Cardinality(pc) = Len(listeners[POST_COMMIT])
            /\ \A i \in pc : \E j \in At(SlotTopic(s)) :
                  j < i /\ last.log[j].ev = last.log[i].ev

\* -----------------------------------------------------------------
\* the sub-keys the entries of the batch that changed s gave it
Contributed(s) ==
    UNION {OtherKeys(SubOrEmpty(last.rcalls[i].ret)) : i \in ChangingEntries(s)}
LastContributor(s, k) ==
    CHOOSE i \in ChangingEntries(s) :
        /\ HasKey(SubOrEmpty(last.rcalls[i].ret), k)
        /\ \A j \in ChangingEntries(s) : HasKey(SubOrEmpty(last.rcalls[j].ret), k) => j <= i

\* C10: in a batch the sub-key events delivered for a slot are exactly the
\* union of the sub-keys of the SubEvents maps produced by the entries that
\* changed it, each once, and afterwards the stored map gives each of them
\* the value of the last entry that contributed it.
C10_BatchSubEventMerge ==
    IsBatch =>
        \A s \in ChangedSlots :
            /\ {DeliveredSubKeys(s)[i] : i \in 1..Len(DeliveredSubKeys(s))} = Contributed(s)
            /\ Len(DeliveredSubKeys(s)) = Cardinality(Contributed(s))
            /\ \A k \in Contributed(s) :
                  GetKey(SubOrEmpty(states[s]), k)
                      = GetKey(SubOrEmpty(last.rcalls[LastContributor(s, k)].ret), k)

\* -----------------------------------------------------------------
\* the first entry of the batch that names s
FirstNamed(s) ==
    CHOOSE i \in 1..Len(last.batch) :
        /\ last.batch[i].stateId = s
        /\ \A j \in 1..Len(last.batch) : last.batch[j].stateId = s => i <= j
\* every event of slot a was delivered before any event of slot b
AllBefore(a, b) ==
    \A i, j \in 1..Len(last.log) :
        (last.log[i].ev.eventId = a /\ last.log[j].ev.eventId = b) => i < j

\* C11 as stated: in a batch that changes two slots, all events of the slot
\* whose first entry comes first in the input are delivered before any event
\* of the other.
C11_Original ==
    IsBatch =>
        \A a, b \in ChangedSlots : FirstNamed(a) < FirstNamed(b) => AllBefore(a, b)

\* C11 (amended): in a batch that changes two slots, all events of the slot
\* that an entry changed first are delivered before any event of the other.
C11_SlotOrder ==
    IsBatch =>
        \A a, b \in ChangedSlots : FirstChange(a) < FirstChange(b) => AllBefore(a, b)

\* a batch that names s2 first but changes s1 first, and delivered the event
\* of s1 before that of s2
C11_Witness ==
    /\ IsBatch
    /\ ChangedSlots = {"s1", "s2"}
    /\ FirstNamed("s2") < FirstNamed("s1")
    /\ FirstChange("s1") < FirstChange("s2")
    /\ At(SlotTopic("s1")) # {} /\ At(SlotTopic("s2")) # {}
    /\ AllBefore("s1", "s2")

\* -----------------------------------------------------------------
\* the registrations invoked with the event of slot s on a topic, in order
Invoked(topic, s) ==
    LET ds == SelectSeq(last.log, LAMBDA d : d.topic = topic /\ d.ev.eventId = s)
    IN  [i \in 1..Len(ds) |-> [fn |-> ds[i].h, reg |-> ds[i].reg]]
\* the slots for which the latest call emitted a slot-wide and a postCommit event
Announced == {s \in CommittedSlots : ~Suppresses(CommittedMap(s))}
\* the registration of the n-th listenFor call is still in place
Registered(n) ==
    \E i \in 1..Len(listeners[unsubs[n].eventId]) :
        listeners[unsubs[n].eventId][i].reg = n - 1
\* the registration of the n-th listenFor call was invoked for the event of
\* every slot the latest call announced on its topic
StillInvoked(n) ==
    \A s \in Announced :
        unsubs[n].eventId \in {SlotTopic(s), POST_COMMIT} =>
            \E i \in 1..Len(Invoked(unsubs[n].eventId, s)) :
                Invoked(unsubs[n].eventId, s)[i].reg = n - 1

\* C12: calling the unsubscribe function of one listenFor call removes only
\* that registration: every registration whose own unsubscribe function was
\* not called (a second registration of the same callback on the same topic
\* included) stays in place and is invoked by the later events on its topic.
C12_IndependentRegistrations ==
    \A n \in 1..Len(unsubs) :
        ~unsubs[n].called =>
            /\ Registered(n)
            /\ (IsDispatch \/ IsBatch) => StillInvoked(n)

\* C13: once the unsubscribe function of a registration was called, no later
\* dispatch or batch invokes the listener through that registration, and the
\* listeners of the other registrations keep being invoked.
C13_Unsubscribed ==
    (IsDispatch \/ IsBatch) =>
        /\ \A i \in 1..Len(last.log) : ~unsubs[last.log[i].reg + 1].called
        /\ \A n \in 1..Len(unsubs) : ~unsubs[n].called => StillInvoked(n)

\* C14: for every event on a topic the handlers registered on the topic are
\* invoked once each, in the order of their registration, one right after the
\* other, within the call that emitted the event.
C14_AllInOrder ==
    (IsDispatch \/ IsBatch) =>
        /\ \A s \in Announced : \A t \in {SlotTopic(s), POST_COMMIT} :
              Invoked(t, s) = listeners[t]
        /\ \A i, j \in 1..Len(last.log) :
              (i < j /\ last.log[i].topic = last.log[j].topic
                     /\ last.log[i].ev.eventId = last.log[j].ev.eventId) =>
                  \A k \in i..j : last.log[k].topic = last.log[i].topic

\* a dispatch that invoked two different handlers registered on the topic s1
C14_Witness ==
    /\ IsDispatch
    /\ Len(listeners[SlotTopic("s1")]) = 2
    /\ listeners[SlotTopic("s1")][1].fn # listeners[SlotTopic("s1")][2].fn
    /\ Invoked(SlotTopic("s1"), "s1") = listeners[SlotTopic("s1")]

\* -----------------------------------------------------------------
\* the id the latest registry call was about
CalledId == IF last.arg = Undef THEN "default" ELSE last.arg

\* C15: setStore fails when the id is already registered and leaves the
\* registered store in place; getStore fails when the id was never
\* registered and otherwise returns the store registered under it; an omitted
\* id means 'default'; no call changes the store an id is registered with.
C15_Registry ==
    /\ last.op = "setStore" =>
          /\ last.stores[CalledId] # Undef =>
                last.threw /\ globalStores = last.stores
          /\ ~last.threw => globalStores[CalledId] = last.store
    /\ last.op = "getStore" =>
          /\ last.stores[CalledId] = Undef => last.threw
          /\ last.stores[CalledId] # Undef =>
                ~last.threw /\ last.ret = last.stores[CalledId]
    /\ last.op \in {"setStore", "getStore"} =>
          \A id \in StoreIds :
              last.stores[id] # Undef => globalStores[id] = last.stores[id]

\* -----------------------------------------------------------------
\* C16: getState(s) succeeds and returns the current value of every slot s
\* that was initialized, a slot whose value is falsy (false, 0, '') included.
C16_GetStateInitialized ==
    (last.op = "getState" /\ last.stateId \in Slots) =>
        ~last.threw /\ last.value = last.pre[last.stateId]

\* -----------------------------------------------------------------
\* C17: for a slot id that is not in the initial state map and has no reducer
\* registered, getState throws and getDispatcher throws, and neither changes
\* a slot value or delivers an event.
C17_UnknownSlot ==
    (last.op \in {"getState", "getDispatcher"}
        /\ last.stateId \notin Slots /\ last.stateId \notin DOMAIN reducers) =>
        /\ last.threw
        /\ states = last.pre
        /\ last.log = <<>>

\* -----------------------------------------------------------------
\* the reducer a dispatch to s has to use: the one the caller gave last, the
\* default reducer if the caller gave none
Expected(s) == IF configured[s] = Undef THEN "defaultReducer" ELSE configured[s]

\* r is a new object that has the fields of a with a's values and the other
\* fields of v with v's values
ShallowMerge(r, v, a, pre) ==
    /\ r.ref \notin RefsOf(pre)
    /\ \A k \in Fields : r.f[k] = IF a.f[k] # Undef THEN a.f[k] ELSE v.f[k]
    /\ r.sub = IF a.sub.def THEN a.sub ELSE v.sub

IsAdd ==
    /\ IsDispatch /\ "__key" \in DOMAIN last.action.f
    /\ last.action.f["__key"] # Undef /\ last.action.f["__oldKey"] = Undef
IsMove ==
    /\ IsDispatch /\ "__key" \in DOMAIN last.action.f
    /\ last.action.f["__key"] # Undef /\ last.action.f["__oldKey"] # Undef
GivenKey == last.action.f["__key"]
GivenOldKey == last.action.f["__oldKey"]
GivenItem == [k \in Fields |-> last.action.f[k]]
\* the item a keyed object has at a key
ItemAt(o, k) == IF k \in DOMAIN o.f THEN o.f[k] ELSE NoItem
\* the items at the keys other than those of K are what they were
OthersKept(K) == \A k \in ItemKeys \ K : states["s1"].f[k] = last.pre["s1"].f[k]
\* the __subEvents of the stored object are exactly the given entries
SubEventsAre(entries) ==
    /\ states["s1"].sub.def
    /\ Len(states["s1"].sub.kv) = Cardinality(entries)
    /\ {states["s1"].sub.kv[i] : i \in 1..Len(states["s1"].sub.kv)} = entries

\* C19: dispatching keyItemAdd(K, P) with a non-empty key K yields a state in
\* which the item at K equals P, every other item is unchanged and the
\* SubEvents map is exactly {K: 'add'}.
C19_KeyItemAdd ==
    (IsAdd /\ GivenKey # "") =>
        /\ ItemAt(states["s1"], GivenKey) = Item(GivenItem)
        /\ OthersKept({GivenKey})
        /\ SubEventsAre({P(GivenKey, "add")})

\* C20: dispatching keyItemMove(K_old, K_new, M) with distinct keys yields a
\* state with no item at K_old, with the item at K_new equal to the former
\* item at K_old overlaid with M (M alone when K_old had no item), every
\* other item unchanged and the SubEvents map exactly
\* {K_new: 'add', K_old: 'remove'}.
C20_KeyItemMove ==
    (IsMove /\ GivenOldKey # GivenKey) =>
        /\ ItemAt(states["s1"], GivenOldKey) = NoItem
        /\ ItemAt(states["s1"], GivenKey)
              = Item(SpreadF(ItemAt(last.pre["s1"], GivenOldKey).f, GivenItem))
        /\ OthersKept({GivenKey, GivenOldKey})
        /\ SubEventsAre({P(GivenKey, "add"), P(GivenOldKey, "remove")})

\* -----------------------------------------------------------------
\* the dispatched action is { __deleteKey }
IsRemove ==
    /\ IsDispatch /\ "__deleteKey" \in DOMAIN last.action.f
    /\ last.action.f["__deleteKey"] # Undef /\ last.action.f["__key"] = Undef
GivenDeleteKey == last.action.f["__deleteKey"]

NamedKeys ==
    IF IsAdd THEN {GivenKey}
    ELSE IF IsMove THEN {GivenKey, GivenOldKey}
    ELSE IF IsRemove THEN {GivenDeleteKey}
    ELSE {}
IsKeyItemCall == (IsAdd \/ IsMove \/ IsRemove) /\ "" \notin NamedKeys
\* the handlers registered on a topic, in order
RegisteredOn(topic) == [i \in 1..Len(listeners[topic]) |-> listeners[topic][i].fn]
\* the handlers the latest call invoked on a topic, in order
InvokedOn(topic) == [i \in 1..Len(On(topic)) |-> On(topic)[i].h]

Retained(s) ==
    \A i \in 1..Len(DeliveredSubKeys(s)) :
        LET k == DeliveredSubKeys(s)[i]
        IN  /\ HasKey(SubOrEmpty(states[s]), k)
            /\ GetKey(SubOrEmpty(states[s]), k) = GetKey(CommittedMap(s), k)

\* C24: after a dispatch or a batch has returned, the stored SubEvents map
\* of every slot it changed has no sentinel key '!' and still holds the
\* sub-keys that were delivered, with their values.
C24_SentinelStripped ==
    (IsDispatch \/ IsBatch) =>
        \A s \in CommittedSlots :
            /\ ~HasKey(SubOrEmpty(states[s]), Sentinel)
            /\ Retained(s)

\* a committed map with a sentinel and another sub-key, which was delivered
C24_Witness ==
    /\ (IsDispatch \/ IsBatch)
    /\ \E s \in CommittedSlots :
          /\ HasKey(CommittedMap(s), Sentinel)
          /\ DeliveredSubKeys(s) # <<>>
          /\ states[s].sub.def

\* the ids under which this.states holds a value
HeldSlots == DOMAIN states

\* C25: after any sequence of setReducer, getDispatcher, dispatch and batch
\* calls the ids that hold a value in the store are the keys of the initial
\* state map: no call creates a slot and none removes one.
C25_SlotsFixed == HeldSlots = Slots

\* the slot values a states map shows
Values(sts) == [s \in DOMAIN sts |-> Content(sts[s])]

\* C26: the `states` and the prevState / prevStates a listener received with
\* an event still show the slot values of that commit after any later
\* dispatch or batch on the store.
C26_EventPermanent ==
    kept # NoKept =>
        /\ Values(kept.shown) = Values(kept.commit)
        /\ kept.prevShown = kept.prev

\* the dispatched action has none of the three operation fields
IsPlain ==
    /\ IsDispatch /\ "__key" \in DOMAIN last.action.f
    /\ \A k \in KeyFields : last.action.f[k] = Undef

\* C27: for an action with none of __key, __oldKey and __deleteKey,
\* keyItemReducer returns the slot's current value itself, so the dispatch
\* changes nothing and invokes no listener (the sub-key events of an earlier
\* operation are not delivered again).
C27_KeyItemNoChange ==
    IsPlain =>
        /\ ReturnedStored
        /\ last.log = <<>>
        /\ Values(states) = Values(last.pre)

\* the objects a states map holds and their own fields, the sentinel aside
Applied(sts) ==
    [s \in DOMAIN sts |-> [ref |-> sts[s].ref, f |-> sts[s].f, def |-> sts[s].sub.def,
                            kv |-> JsDelete(sts[s].sub.kv, Sentinel)]]

\* C28 as stated: whenever a listener is invoked for a dispatch or a batch,
\* every slot already holds its final value of the call, and the `states` of
\* the event equals those final values.
C28_Original ==
    (IsDispatch \/ IsBatch) =>
        \A i \in 1..Len(last.log) : Values(last.log[i].ev.states) = Values(last.post)

\* C28: whenever a listener is invoked for a dispatch or a batch, every slot
\* already holds the object it holds when the call returns, with all its
\* fields and sub-keys; only the sentinel '!' of a slot may still be in its
\* SubEvents map, until the emission comes to it.
C28_CommitBeforeEmit ==
    (IsDispatch \/ IsBatch) =>
        \A i \in 1..Len(last.log) : Applied(last.log[i].ev.states) = Applied(last.post)

\* a batch that changed both slots: the listener of the first slot's event is
\* invoked with the second slot already at its final value
C28_Witness ==
    /\ IsBatch
    /\ last.stateIds = <<"s1", "s2">>
    /\ \E i \in 1..Len(last.log) :
          /\ last.log[i].topic = SlotTopic("s1")
          /\ last.log[i].ev.states["s2"].f = last.post["s2"].f
          /\ last.post["s2"].f # last.pre["s2"].f

\* every reducer call of the batch returned the object its slot held
AllUnchanged ==
    /\ IsBatch
    /\ \A i \in 1..Len(last.rcalls) :
          last.rcalls[i].ret.ref = last.pre[last.rcalls[i].stateId].ref

\* C29: a batch in which every entry's reducer returns the unchanged current
\* value of its slot, and likewise an empty batch, delivers no event on any
\* topic and leaves every slot holding the very value it held before.
C29_UnchangedBatch ==
    AllUnchanged =>
        /\ last.log = <<>>
        /\ last.post = last.pre
        /\ Values(states) = Values(last.pre)

\* a batch of two entries whose reducer returned the stored object both times
C29_Witness ==
    /\ AllUnchanged
    /\ Len(last.batch) = 2
    /\ Len(last.rcalls) = 2

\* the dispatched action is keyItemMove(K, K, M) for a non-empty key K
IsMoveInPlace == IsMove /\ GivenKey = GivenOldKey /\ GivenKey # ""

\* C30: keyItemMove(K, K, M), the old key being the new key, keeps the item
\* at K, its former value overlaid with M, and the sub-event marker recorded
\* for K is 'add', the item existing after the action.
C30_MoveInPlace ==
    IsMoveInPlace =>
        /\ ItemAt(states["s1"], GivenKey).here
        /\ ItemAt(states["s1"], GivenKey).f =
               SpreadF(ItemOrEmpty(last.pre["s1"].f, GivenKey),
                       [k \in Fields |-> IF k = "type" THEN Undef ELSE GivenItem[k]])
        /\ GetKey(SubOrEmpty(states["s1"]), GivenKey) = "add"

\* C31: for a payload P that has a field named `type`, the item stored at K
\* after dispatching keyItemAdd(K, P) has exactly the fields and values of P,
\* the `type` field included.
C31_PayloadUnaltered ==
    (IsAdd /\ GivenKey # "" /\ GivenItem["type"] # Undef) =>
        /\ ItemAt(states["s1"], GivenKey).here
        /\ ItemAt(states["s1"], GivenKey).f = GivenItem

\* the key the handler's latest call named
CalledKey ==
    IF last.action.f["__deleteKey"] # Undef THEN last.action.f["__deleteKey"]
    ELSE last.action.f["__key"]

\* C32: after handler.add(A) followed by handler.merge(B) on the same
\* handler, the item stored at the handler's itemId equals A overlaid with
\* B; and the handler's calls act on its itemId, which after
\* handler.move(newId) is newId.
C32_HandlerMerge ==
    (IsDispatch /\ kept # NoKept) =>
        /\ (kept.op = "merge" /\ kept.prevOp = "add") =>
               ItemAt(states["s1"], kept.itemId) = Item(SpreadF(kept.prevData, kept.data))
        /\ CalledKey = kept.itemId

\* -----------------------------------------------------------------
\* the latest call was formHandler.hasErrors
IsHasErrors == kept # NoKept /\ last.op # "none" /\ kept.op = "hasErrors"
\* the messages of the validators that flag a field, in registration order
Flagging(field) ==
    LET vs == SelectSeq(kept.validators,
                        LAMBDA v : Validate(v, kept.state.values)[field].here)
    IN  [i \in 1..Len(vs) |-> Validate(vs[i], kept.state.values)[field].message]
RECURSIVE Joined(_)
Joined(msgs) ==
    IF Len(msgs) = 1 THEN msgs[1] ELSE msgs[1] \o JOIN \o Joined(Tail(msgs))
\* one error per flagged field, its message the joined messages
JoinedErrors ==
    [x \in FormFieldNames |->
        IF Flagging(x) = <<>> THEN NoFieldError ELSE FieldError(Joined(Flagging(x)))]
NothingDispatched ==
    /\ last.op = "hasErrors"
    /\ states[FormSlot].f.errors = last.pre[FormSlot].f.errors

IsFormAction(type) ==
    IsDispatch /\ last.stateId = FormSlot /\ "execOp" \in DOMAIN last.action.f
        /\ last.action.f.type = type
FormBefore == last.pre[FormSlot].f
FormAfter == states[FormSlot].f
GivenParams == last.action.f.execOpParams
\* execOpParams of the action has a `locked` value
LockGiven == GivenParams.def /\ GivenParams.v.locked # Undef
\* execOpParams of the action has clearErrors or setErrors
ErrorsGiven ==
    GivenParams.def /\ (GivenParams.v.clearErrors # Undef \/ GivenParams.v.setErrors.def)
\* the name of the operation begins with the six letters of 'submit'
IsSubmitOp ==
    /\ Len(last.action.f.execOp.v) >= 6
    /\ \A i \in 1..6 : last.action.f.execOp.v[i] = <<"s", "u", "b", "m", "i", "t">>[i]

IsUnknownFormAction ==
    /\ IsDispatch /\ "execOp" \in DOMAIN last.action.f
    /\ last.action.f.type \notin {FORM_RESET, FORM_UPDATE_FIELD, FORM_UPDATE_FIELDS,
                                   FORM_SET_ERRORS, FORM_EXEC_OP}

\* C35: for an action of an unrecognised type formReducer, bound to any slot
\* id s, returns the current value of slot s itself, so that after the
\* dispatch slot s still holds its previous value.
C35_FormUntouched ==
    IsUnknownFormAction =>
        /\ ReturnedStored
        /\ Content(states[last.stateId]) = Content(last.pre[last.stateId])

\* C36: when a listener dispatches again from inside its callback, every
\* listener still receives events in increasing stamp order: no listener is
\* handed the event of an earlier call after the event of a later call.
C36_StampOrder ==
    \A i \in 1..Len(last.log) : \A j \in i..Len(last.log) :
        last.log[i].h = last.log[j].h =>
            last.log[i].ev.eventStamp <= last.log[j].ev.eventStamp

\* C37: dispatching never modifies the caller's action object: after a
\* dispatch or a batch the object passed in (its nested __subEvents map with
\* the '!' sentinel included) has the contents it was written with, so every
\* dispatch of the same object to the slot emits on the same topics in the
\* same order.
C37_ActionIntact ==
    /\ kept.action = kept.given
    /\ \A i \in 1..Len(kept.logs) : kept.logs[i] = kept.logs[1]

\* C38: the handlers invoked for one event are exactly those registered on
\* its topic when the delivery began, in that order: a handler another
\* handler unsubscribes meanwhile is still invoked, and a handler registered
\* meanwhile is not invoked for the event in progress.
C38_DeliverySnapshot ==
    last.op = "dispatch" =>
        [i \in 1..Len(last.log) |-> [fn |-> last.log[i].h, reg |-> last.log[i].reg]]
            = kept.began

\* C39: a keyed-collection call that adds, moves to or deletes the item whose
\* key is '!' is reported like a call on any other key: a sub-key event is
\* delivered on the topic `s1/!` and the slot-wide event on `s1`.
NamesBang ==
    /\ last.op = "dispatch"
    /\ last.stateId = "s1"
    /\ \/ last.action.f["__key"] = Sentinel
       \/ (~KeyTruthy(last.action.f["__key"]) /\ last.action.f["__deleteKey"] = Sentinel)
C39_BangReported ==
    NamesBang =>
        /\ \E i \in 1..Len(last.log) : last.log[i].topic = SubTopic("s1", Sentinel)
        /\ \E i \in 1..Len(last.log) : last.log[i].topic = SlotTopic("s1")

====
